---- MODULE Spec2Model ----
(***************************************************************************)
(* Item extraction, product matching and result fusion of the outfit       *)
(* shopping pipeline (ItemExtractionService, ShoppingSearchService).       *)
(*                                                                         *)
(* Strings whose characters the code inspects (piece types, colors,        *)
(* descriptions, product titles) are sequences of one-character strings.   *)
(* Bounding boxes are in hundredths of the image side.                     *)
(***************************************************************************)
EXTENDS Integers, Sequences, FiniteSets, TLC

VARIABLES
    items,      \* removeDuplicateItems: the items parsed from the model's response
    deduped,    \* removeDuplicateItems: the list it returned
    ipc,        \* extraction position: "parsed" | "deduped"
    products,   \* deduplicateAndRankProducts: the candidate list it is given
    fused,      \* deduplicateAndRankProducts: the list it returned
    refused,    \* deduplicateAndRankProducts applied to its own output
    fpc,        \* fusion position: "collect" | "fused" | "refused"
    genAI,      \* ShoppingSearchService.genAI is set (the API key is configured)
    extractedItems, \* searchProductsForExtractedItems: the argument
    idx,        \* index of the item the for loop is at (1-based)
    spc,        \* position in searchProductsForExtractedItems:
                \* "idle" | "loop" | "fetch" | "generate" | "delay" | "done"
    results,    \* the results array
    backend,    \* per item, what became of its backend call: "none" | "in_flight"
                \* | "ok" | "fetch_error" | "model_error" | "malformed"
    outcome,    \* the returned promise: "pending" | "resolved" | "rejected"
    delays,     \* number of rate-limiting timers that have fired
    model,      \* ItemExtractionService.genAI and .model are set (key configured)
    flatLayImageUrl, \* extractIndividualItems: the argument
    now,        \* Date.now(), in runs of the extractor
    xpc,        \* position in extractIndividualItems: "idle" | "fetch"
                \* | "generate" | "images" | "done"
    calls,      \* requests sent so far: [fetch |-> n, generate |-> n]
    imageFetch, \* what axios.get settled with: "none" | "ok" | "failed"
    analysis,   \* what the analysis call settled with (kind "none" before)
    deduplicatedItems, \* the list handed to generateItemImages
    crops,      \* per item processed, what its crop calls settled with
    itemsWithImages,   \* generateItemImages: the list it builds
    returned,   \* the list extractIndividualItems resolved with
    xoutcome,   \* its promise: "pending" | "resolved" | "rejected"
    earlier,    \* ids, types and descriptions an earlier run resolved with
    linkItems,  \* findShoppingLinksForExtractedItems: the argument
    linkIdx,    \* index of the item its for loop is at (1-based)
    linkPc,     \* its position: "idle" | "loop" | "reverse" | "upload" | "serp"
                \* | "text" | "delay" | "done"
    invoked,    \* per item, the strategies invoked, in order, with the number
                \* of results each returned (-1 while it runs)
    linkResults, \* its results array
    scrollItems, \* useInfiniteScroll: the items state (a page's models are
                \* stood for by the page number, the sample data by 0)
    loading,    \* the loading state
    hasMore,    \* the hasMore state
    page,       \* the page state
    error,      \* the error state is set
    rendered,   \* the state values the callbacks of the last render closed over
    inflight,   \* the getModels requests that have not settled (page numbers)
    requested,  \* the pages requested so far, in order, each with the caller,
                \* whether another request was in flight and whether the
                \* caller's render was out of date
    failed,     \* the page whose request failed last (0: none)
    received,   \* validatePagination: req.query as the request came in
    query,      \* req.query now, [page, limit]
    status,     \* the status of the response sent (0: none sent)
    nextCalls,  \* how often next() was called
    served,     \* the page and limit getModels worked with
    vpc         \* position of the request: "received" | "validated" | "done"

dedupVars == <<items, deduped, ipc>>
fuseVars == <<products, fused, refused, fpc>>
searchVars == <<genAI, extractedItems, idx, spc, results, backend, outcome, delays>>
extractVars == <<model, flatLayImageUrl, now, xpc, calls, imageFetch, analysis,
                 deduplicatedItems, crops, itemsWithImages, returned, xoutcome, earlier>>
linkVars == <<linkItems, linkIdx, linkPc, invoked, linkResults>>
scrollVars == <<scrollItems, loading, hasMore, page, error, rendered, inflight,
                requested, failed>>
paginateVars == <<received, query, status, nextCalls, served, vpc>>
vars == <<items, deduped, ipc, products, fused, refused, fpc,
          genAI, extractedItems, idx, spc, results, backend, outcome, delays,
          model, flatLayImageUrl, now, xpc, calls, imageFetch, analysis,
          deduplicatedItems, crops, itemsWithImages, returned, xoutcome, earlier,
          linkItems, linkIdx, linkPc, invoked, linkResults,
          scrollItems, loading, hasMore, page, error, rendered, inflight,
          requested, failed,
          received, query, status, nextCalls, served, vpc>>

(***************************************************************************)
(* Bounds                                                                  *)
(***************************************************************************)
MaxItems == 2

MaxProducts == 3

MaxDistinct == 9

MaxRanked == 2

MaxSearchItems == 3

MaxResponse == 2

MaxParsed == 2

MaxLinkItems == 2

MaxFound == 1

MaxRequests == 4

MaxPage == 4

TotalPages == 3

(***************************************************************************)
(* String primitives of the JavaScript runtime, on character sequences     *)
(***************************************************************************)
Min(a, b) == IF a < b THEN a ELSE b

Max(a, b) == IF a > b THEN a ELSE b

Range(s) == {s[i] : i \in 1..Len(s)}

UpperLetters ==
    <<"A","B","C","D","E","F","G","H","I","J","K","L","M",
      "N","O","P","Q","R","S","T","U","V","W","X","Y","Z">>

LowerLetters ==
    <<"a","b","c","d","e","f","g","h","i","j","k","l","m",
      "n","o","p","q","r","s","t","u","v","w","x","y","z">>

Digits == {"0","1","2","3","4","5","6","7","8","9"}

\* \w of a JavaScript regular expression
WordChars == Range(UpperLetters) \cup Range(LowerLetters) \cup Digits \cup {"_"}

isWordChar(c) == c \in WordChars

\* \s of a JavaScript regular expression (the characters the inputs use)
isSpace(c) == c \in {" ", "\t", "\n"}

lowerOf == [c \in Range(UpperLetters) |-> LowerLetters[CHOOSE i \in 1..26 : UpperLetters[i] = c]]

lowerChar(c) == IF c \in DOMAIN lowerOf THEN lowerOf[c] ELSE c

toLowerCase(s) == [i \in 1..Len(s) |-> lowerChar(s[i])]

\* s.substring(0, n)
substring(s, n) == SubSeq(s, 1, Min(n, Len(s)))

\* s.replace(/\s+/g, ' '): of a run of whitespace the first character is
\* kept, as a space
collapseWhitespace(s) ==
    LET keep == SelectSeq([i \in 1..Len(s) |-> i],
                          LAMBDA i : ~(isSpace(s[i]) /\ i > 1 /\ isSpace(s[i - 1])))
    IN  [k \in 1..Len(keep) |-> IF isSpace(s[keep[k]]) THEN " " ELSE s[keep[k]]]

\* s.trim()
trim(s) ==
    IF \A i \in 1..Len(s) : isSpace(s[i]) THEN <<>>
    ELSE LET first == CHOOSE i \in 1..Len(s) :
                          ~isSpace(s[i]) /\ \A j \in 1..(i - 1) : isSpace(s[j])
             last == CHOOSE i \in 1..Len(s) :
                          ~isSpace(s[i]) /\ \A j \in (i + 1)..Len(s) : isSpace(s[j])
         IN  SubSeq(s, first, last)

\* s.split(' ')
RECURSIVE split(_)
split(s) ==
    IF \A i \in 1..Len(s) : s[i] # " " THEN <<s>>
    ELSE LET k == CHOOSE i \in 1..Len(s) : s[i] = " " /\ \A j \in 1..(i-1) : s[j] # " "
         IN <<SubSeq(s, 1, k - 1)>> \o split(SubSeq(s, k + 1, Len(s)))

\* a ratio n/d, and the comparison n/d > a/b
\* String.prototype.includes
includes(s, term) ==
    \E i \in 1..(Len(s) - Len(term) + 1) : SubSeq(s, i, i + Len(term) - 1) = term

\* Array.prototype.join with a one-character separator
RECURSIVE join(_, _)
join(parts, sep) ==
    IF parts = <<>> THEN <<>>
    ELSE IF Len(parts) = 1 THEN parts[1]
    ELSE parts[1] \o <<sep>> \o join(Tail(parts), sep)

Ratio(n, d) == [n |-> n, d |-> d]

RatioGreater(r, a, b) == r.n * b > a * r.d

(***************************************************************************)
(* ItemExtractionService: duplicate removal                                *)
(***************************************************************************)
typeMap ==
    LET shoes == <<"s","h","o","e","s">>
    IN  (<<"s","h","o","e">> :> shoes)
     @@ (<<"b","o","o","t">> :> shoes)
     @@ (<<"b","o","o","t","s">> :> shoes)
     @@ (<<"s","n","e","a","k","e","r">> :> shoes)
     @@ (<<"s","n","e","a","k","e","r","s">> :> shoes)
     @@ (<<"s","a","n","d","a","l">> :> shoes)
     @@ (<<"s","a","n","d","a","l","s">> :> shoes)
     @@ (<<"h","e","e","l">> :> shoes)
     @@ (<<"h","e","e","l","s">> :> shoes)
     @@ (<<"e","a","r","r","i","n","g">> :> <<"e","a","r","r","i","n","g","s">>)
     @@ (<<"g","l","o","v","e">> :> <<"g","l","o","v","e","s">>)
     @@ (<<"s","o","c","k">> :> <<"s","o","c","k","s">>)
     @@ (<<"s","t","o","c","k","i","n","g">> :> <<"s","o","c","k","s">>)

normalizePieceType(pieceType) ==
    LET type == toLowerCase(pieceType)
    IN  IF type \in DOMAIN typeMap THEN typeMap[type] ELSE type

\* the words of /\b(left|right|pair|pairs|both)\b/g
pairWords ==
    { <<"l","e","f","t">>, <<"r","i","g","h","t">>, <<"p","a","i","r">>,
      <<"p","a","i","r","s">>, <<"b","o","t","h">> }

\* the end of the run of word characters that starts at s[1]
RECURSIVE wordRunLength(_)
wordRunLength(s) ==
    IF s # <<>> /\ isWordChar(Head(s)) THEN 1 + wordRunLength(Tail(s)) ELSE 0

\* s.replace(/\b(left|right|pair|pairs|both)\b/g, ''): s is read from the
\* start of a word or from a non-word character
RECURSIVE removePairWords(_)
removePairWords(s) ==
    IF s = <<>> THEN <<>>
    ELSE IF isWordChar(Head(s))
         THEN LET n == wordRunLength(s)
                  w == SubSeq(s, 1, n)
              IN  (IF w \in pairWords THEN <<>> ELSE w)
                  \o removePairWords(SubSeq(s, n + 1, Len(s)))
         ELSE <<Head(s)>> \o removePairWords(Tail(s))

normalizeDescription(description) ==
    substring(trim(collapseWhitespace(removePairWords(toLowerCase(description)))), 50)

generateItemKey(item) ==
    LET normalizedType == normalizePieceType(item.pieceType)
        normalizedColor == IF item.color # <<>> THEN toLowerCase(item.color)
                           ELSE <<"u","n","k","n","o","w","n">>
        normalizedDescription == normalizeDescription(item.description)
    IN  normalizedType \o <<"-">> \o normalizedColor \o <<"-">> \o normalizedDescription

colorGroups ==
    { { <<"b","l","a","c","k">>, <<"d","a","r","k">>, <<"c","h","a","r","c","o","a","l">> },
      { <<"w","h","i","t","e">>, <<"c","r","e","a","m">>, <<"i","v","o","r","y">>,
        <<"o","f","f","-","w","h","i","t","e">> },
      { <<"b","l","u","e">>, <<"n","a","v","y">>, <<"d","e","n","i","m">> },
      { <<"b","r","o","w","n">>, <<"t","a","n">>, <<"b","e","i","g","e">>,
        <<"c","a","m","e","l">> },
      { <<"r","e","d">>, <<"b","u","r","g","u","n","d","y">>, <<"w","i","n","e">> },
      { <<"p","i","n","k">>, <<"r","o","s","e">>, <<"b","l","u","s","h">> } }

\* an absent color is the empty sequence: both are falsy
colorsMatch(color1, color2) ==
    IF color1 = <<>> \/ color2 = <<>> THEN TRUE
    ELSE LET c1 == toLowerCase(color1)
             c2 == toLowerCase(color2)
         IN  \/ c1 = c2
             \/ \E group \in colorGroups : c1 \in group /\ c2 \in group

calculateDescriptionSimilarity(desc1, desc2) ==
    LET words1 == {w \in Range(split(desc1)) : Len(w) > 2}
        words2 == {w \in Range(split(desc2)) : Len(w) > 2}
        intersection == words1 \cap words2
        union == words1 \cup words2
    IN  IF Cardinality(union) > 0
        THEN Ratio(Cardinality(intersection), Cardinality(union))
        ELSE Ratio(0, 1)

calculateSpatialSimilarity(box1, box2) ==
    LET x1 == Max(box1.x, box2.x)
        y1 == Max(box1.y, box2.y)
        x2 == Min(box1.x + box1.width, box2.x + box2.width)
        y2 == Min(box1.y + box1.height, box2.y + box2.height)
        overlapArea == (x2 - x1) * (y2 - y1)
        box1Area == box1.width * box1.height
        box2Area == box2.width * box2.height
        unionArea == box1Area + box2Area - overlapArea
    IN  IF x2 <= x1 \/ y2 <= y1 THEN Ratio(0, 1)
        ELSE IF unionArea > 0 THEN Ratio(overlapArea, unionArea)
        ELSE Ratio(0, 1)

pairedTypes ==
    { <<"s","h","o","e","s">>, <<"e","a","r","r","i","n","g","s">>,
      <<"g","l","o","v","e","s">>, <<"s","o","c","k","s">> }

\* the test of one existing item inside the loop of isDuplicatePairedItem
pairDuplicate(newItem, existingItem) ==
    /\ normalizePieceType(existingItem.pieceType) = normalizePieceType(newItem.pieceType)
    /\ colorsMatch(newItem.color, existingItem.color)
    /\ \/ RatioGreater(calculateDescriptionSimilarity(
                           normalizeDescription(newItem.description),
                           normalizeDescription(existingItem.description)), 6, 10)
       \/ RatioGreater(calculateSpatialSimilarity(
                           newItem.boundingBox, existingItem.boundingBox), 3, 10)

isDuplicatePairedItem(newItem, existingItems) ==
    IF normalizePieceType(newItem.pieceType) \notin pairedTypes THEN FALSE
    ELSE \E k \in 1..Len(existingItems) : pairDuplicate(newItem, existingItems[k])

\* one iteration of the loop of removeDuplicateItems
removeDuplicateStep(st, item) ==
    LET itemKey == generateItemKey(item)
    IN  IF itemKey \notin st.seenItems
        THEN [seenItems |-> st.seenItems \cup {itemKey},
              deduplicatedItems |-> Append(st.deduplicatedItems, item)]
        ELSE IF ~isDuplicatePairedItem(item, st.deduplicatedItems)
             THEN [st EXCEPT !.deduplicatedItems = Append(@, item)]
             ELSE st

RECURSIVE removeDuplicateLoop(_, _)
removeDuplicateLoop(st, rest) ==
    IF rest = <<>> THEN st
    ELSE removeDuplicateLoop(removeDuplicateStep(st, Head(rest)), Tail(rest))

removeDuplicateItems(list) ==
    removeDuplicateLoop([seenItems |-> {}, deduplicatedItems |-> <<>>], list).deduplicatedItems

(***************************************************************************)
(* ShoppingSearchService: result fusion                                    *)
(*                                                                         *)
(* A product is a record: url and source, retailer, price and imageUrl     *)
(* are opaque strings (imageUrl "" when absent), title a character         *)
(* sequence; pos is the identity of the object (its arrival position).     *)
(***************************************************************************)
irrelevantTerms ==
    { <<"m","e","n","'","s">>, <<"b","o","y","s">>, <<"k","i","d","s">>, <<"c","h","i","l","d","r","e","n">>, <<"b","a","b","y">>, <<"t","o","d","d","l","e","r">> }

\* a product without title or URL (<<>>, 0) is not valid
isValidProduct(product) ==
    IF product.title = <<>> \/ product.url = 0 THEN FALSE
    ELSE LET title == toLowerCase(product.title)
         IN  ~ \E term \in irrelevantTerms :
                   includes(title, term) /\ ~includes(title, <<"w","o","m","e","n">>)

normalizeProductTitle(title) ==
    LET lowered == toLowerCase(title)
        stripped == SelectSeq(lowered, LAMBDA c : isWordChar(c) \/ isSpace(c))
    IN  substring(trim(collapseWhitespace(stripped)), 60)

\* the trust table with the two Google backends on one level
getSourceScoreLevelled(source) ==
    CASE source = "gemini_web_search" -> 5
      [] source = "google_lens" -> 3
      [] source = "google_reverse" -> 3
      [] source = "bing_reverse" -> 2
      [] source = "gemini_web_search_fallback" -> 1
      [] OTHER -> 0

getSourceScore(source) ==
    CASE source = "gemini_web_search" -> 5
      [] source = "google_lens" -> 4
      [] source = "google_reverse" -> 3
      [] source = "bing_reverse" -> 2
      [] source = "gemini_web_search_fallback" -> 1
      [] OTHER -> 0

preferredRetailers ==
    {"Amazon", "Target", "Nordstrom", "Zara", "H&M", "ASOS", "Macy's", "Walmart"}

\* the source table with the two image-search backends exchanged
calculateRelevanceSwapped(product, item) ==
    (CASE product.source = "gemini_web_search" -> 25
       [] product.source = "google_lens" -> 10
       [] product.source = "google_reverse" -> 15
       [] product.source = "bing_reverse" -> 20
       [] product.source = "gemini_web_search_fallback" -> 8
       [] OTHER -> 0)
    + (IF product.retailer \in preferredRetailers THEN 3 ELSE 0)
    + (IF product.price # "" /\ product.price # "Price not available" THEN 2 ELSE 0)
    + (IF product.imageUrl # "" THEN 1 ELSE 0)

calculateRelevance(product, item) ==
    (CASE product.source = "gemini_web_search" -> 25
       [] product.source = "google_lens" -> 20
       [] product.source = "google_reverse" -> 15
       [] product.source = "bing_reverse" -> 10
       [] product.source = "gemini_web_search_fallback" -> 8
       [] OTHER -> 0)
    + (IF product.retailer \in preferredRetailers THEN 3 ELSE 0)
    + (IF product.price # "" /\ product.price # "Price not available" THEN 2 ELSE 0)
    + (IF product.imageUrl # "" THEN 1 ELSE 0)

\* unique.splice(unique.indexOf(existingProduct), 1)
removeFrom(unique, existingProduct) ==
    IF \E i \in 1..Len(unique) : unique[i] = existingProduct
    THEN LET index == CHOOSE i \in 1..Len(unique) :
                          /\ unique[i] = existingProduct
                          /\ \A j \in 1..(i-1) : unique[j] # existingProduct
         IN  SubSeq(unique, 1, index - 1) \o SubSeq(unique, index + 1, Len(unique))
    ELSE unique

\* the loop body with the URL test left out
dedupStepNoUrlTest(st, product) ==
    LET titleKey == normalizeProductTitle(product.title)
    IN  IF titleKey \in DOMAIN st.seenTitles
        THEN st
        ELSE [seenUrls |-> st.seenUrls \cup {product.url},
              seenTitles |-> (titleKey :> product) @@ st.seenTitles,
              unique |-> Append(st.unique, product)]

\* the loop body with the replaced product left in unique
dedupStepNoSplice(st, product) ==
    IF product.url \in st.seenUrls THEN st
    ELSE LET titleKey == normalizeProductTitle(product.title)
         IN  IF titleKey \in DOMAIN st.seenTitles
             THEN LET existingProduct == st.seenTitles[titleKey]
                  IN  IF getSourceScore(product.source) > getSourceScore(existingProduct.source)
                      THEN [seenUrls |-> st.seenUrls \cup {product.url},
                            seenTitles |-> (titleKey :> product) @@ st.seenTitles,
                            unique |-> Append(st.unique, product)]
                      ELSE st
             ELSE [seenUrls |-> st.seenUrls \cup {product.url},
                   seenTitles |-> (titleKey :> product) @@ st.seenTitles,
                   unique |-> Append(st.unique, product)]

\* the loop body with a replacement on equal trust as well
dedupStepTiesReplace(st, product) ==
    IF product.url \in st.seenUrls THEN st
    ELSE LET titleKey == normalizeProductTitle(product.title)
         IN  IF titleKey \in DOMAIN st.seenTitles
             THEN LET existingProduct == st.seenTitles[titleKey]
                  IN  IF getSourceScore(product.source) >= getSourceScore(existingProduct.source)
                      THEN [seenUrls |-> (st.seenUrls \ {existingProduct.url})
                                             \cup {product.url},
                            seenTitles |-> (titleKey :> product) @@ st.seenTitles,
                            unique |-> Append(removeFrom(st.unique, existingProduct),
                                              product)]
                      ELSE st
             ELSE [seenUrls |-> st.seenUrls \cup {product.url},
                   seenTitles |-> (titleKey :> product) @@ st.seenTitles,
                   unique |-> Append(st.unique, product)]

\* one iteration of the deduplication loop of deduplicateAndRankProducts
dedupStep(st, product) ==
    IF product.url \in st.seenUrls THEN st
    ELSE LET titleKey == normalizeProductTitle(product.title)
         IN  IF titleKey \in DOMAIN st.seenTitles
             THEN LET existingProduct == st.seenTitles[titleKey]
                      currentScore == getSourceScore(product.source)
                      existingScore == getSourceScore(existingProduct.source)
                  IN  IF currentScore > existingScore
                      THEN [seenUrls |-> (st.seenUrls \ {existingProduct.url})
                                             \cup {product.url},
                            seenTitles |-> (titleKey :> product) @@ st.seenTitles,
                            unique |-> Append(removeFrom(st.unique, existingProduct),
                                              product)]
                      ELSE st
             ELSE [seenUrls |-> st.seenUrls \cup {product.url},
                   seenTitles |-> (titleKey :> product) @@ st.seenTitles,
                   unique |-> Append(st.unique, product)]

RECURSIVE dedupLoop(_, _)
dedupLoop(st, rest) ==
    IF rest = <<>> THEN st
    ELSE dedupLoop(dedupStep(st, Head(rest)), Tail(rest))

\* { ...product, relevanceScore: score }
withRelevance(product, score) ==
    [f \in DOMAIN product \cup {"relevanceScore"} |->
        IF f = "relevanceScore" THEN score ELSE product[f]]

\* a sort that puts the later of two equal elements first
sortByRelevanceUnstable(list) ==
    LET n == Len(list)
        before(m, k) == \/ list[m].relevanceScore > list[k].relevanceScore
                        \/ /\ list[m].relevanceScore = list[k].relevanceScore
                           /\ m > k
        rank(k) == 1 + Cardinality({m \in 1..n : before(m, k)})
    IN  [r \in 1..n |-> list[CHOOSE k \in 1..n : rank(k) = r]]

\* Array.prototype.sort((a, b) => b.relevanceScore - a.relevanceScore): the
\* sort is stable, so an element comes after those with a greater score and
\* after the earlier ones with an equal score
sortByRelevance(list) ==
    LET n == Len(list)
        before(m, k) == \/ list[m].relevanceScore > list[k].relevanceScore
                        \/ /\ list[m].relevanceScore = list[k].relevanceScore
                           /\ m < k
        rank(k) == 1 + Cardinality({m \in 1..n : before(m, k)})
    IN  [r \in 1..n |-> list[CHOOSE k \in 1..n : rank(k) = r]]

deduplicateAndRankProducts(list, item) ==
    LET unique == dedupLoop([seenUrls |-> {}, seenTitles |-> <<>>, unique |-> <<>>],
                            list).unique
        scored == [i \in 1..Len(unique) |->
                      withRelevance(unique[i], calculateRelevance(unique[i], item))]
    IN  sortByRelevance(scored)

(***************************************************************************)
(* The items the model can report                                          *)
(***************************************************************************)
PieceTypes == { <<"s","h","o","e">>, <<"B","o","o","t">>, <<"d","r","e","s","s">> }

Colors == { <<"b","l","a","c","k">>, <<"C","h","a","r","c","o","a","l">>, <<>> }

Descriptions ==
    { <<"l","e","f","t"," ","b","l","a","c","k"," ","b","o","o","t">>,
      <<"R","i","g","h","t"," "," ","b","l","a","c","k"," ","b","o","o","t">>,
      <<"b","l","a","c","k"," ","a","n","k","l","e"," ","b","o","o","t">>,
      <<"l","e","f","t">>,
      <<"R","i","g","h","t">> }

Box(x, y, w, h) == [x |-> x, y |-> y, width |-> w, height |-> h]

\* the two boxes overlap with ratio 200/3000: they overlap, below the 0.3 threshold
Boxes == { Box(10, 10, 40, 40), Box(45, 10, 40, 40) }

(***************************************************************************)
(* Extraction: parse, then remove duplicates                               *)
(***************************************************************************)
DedupInit ==
    /\ items = <<>>
    /\ deduped = <<>>
    /\ ipc = "parsed"

\* parseGeminiResponse maps one more element of the model's array
ParseItem ==
    /\ ipc = "parsed"
    /\ Len(items) < MaxItems
    /\ \E t \in PieceTypes, c \in Colors, d \in Descriptions, b \in Boxes :
          items' = Append(items, [id |-> Len(items) + 1, pieceType |-> t,
                                  description |-> d, boundingBox |-> b, color |-> c])
    /\ UNCHANGED <<deduped, ipc>>

RemoveDuplicates ==
    /\ ipc = "parsed"
    /\ deduped' = removeDuplicateItems(items)
    /\ ipc' = "deduped"
    /\ UNCHANGED items

(***************************************************************************)
(* The candidates the backends can return                                  *)
(***************************************************************************)
\* "Red Dress" and " RED  dress!" have the same normalized title; so have the
\* two titles of 61 characters, which differ in the last character only
longTitle(last) == [i \in 1..61 |-> IF i = 61 THEN last ELSE "x"]

FuseTitles ==
    { <<"R","e","d"," ","D","r","e","s","s">>,
      <<" ","R","E","D"," "," ","d","r","e","s","s","!">>,
      longTitle("a"), longTitle("b") }

\* two pages
Urls == {1, 2}

\* a trusted source and a weaker one
FuseSources == {"gemini_web_search", "bing_reverse"}

RankSources ==
    {"gemini_web_search", "google_lens", "google_reverse", "bing_reverse",
     "gemini_web_search_fallback", "text_search"}

Retailers == {"Amazon", "Etsy"}

Prices == {"$49.99", "Price not available"}

ImageUrls == {"", "https://img"}

\* the page behind a URL decides retailer, price and image: page 1 is of a
\* preferred retailer (+3), page 2 shows a price and an image (+2 +1)
pageOf(url) ==
    CASE url = 1 -> [retailer |-> "Amazon", price |-> "Price not available", imageUrl |-> ""]
      [] url = 2 -> [retailer |-> "Etsy", price |-> "$49.99", imageUrl |-> "https://img"]
      [] OTHER -> [retailer |-> "Etsy", price |-> "Price not available", imageUrl |-> ""]

Product(pos, url, title, source, retailer, price, imageUrl) ==
    [pos |-> pos, url |-> url, title |-> title, source |-> source,
     retailer |-> retailer, price |-> price, imageUrl |-> imageUrl]

decimal(n) ==
    LET digitOf == <<"0","1","2","3","4","5","6","7","8","9">>
    IN  IF n < 10 THEN <<digitOf[n + 1]>>
        ELSE <<digitOf[(n \div 10) + 1], digitOf[(n % 10) + 1]>>

\* "item 1", "item 2", ...: pairwise distinct normalized titles
titleOf(n) == <<"i","t","e","m"," ">> \o decimal(n)

\* the item the candidates were found for (calculateRelevance does not read it)
anyItem == [id |-> 1, pieceType |-> <<"d","r","e","s","s">>]

(***************************************************************************)
(* Fusion: collect candidates, then deduplicate and rank                   *)
(***************************************************************************)
FuseInit ==
    /\ products = <<>>
    /\ fused = <<>>
    /\ refused = <<>>
    /\ fpc = "collect"

\* a backend returns one more candidate
CollectCandidate ==
    /\ fpc = "collect"
    /\ Len(products) < MaxProducts
    /\ \E u \in Urls, t \in FuseTitles, s \in FuseSources :
          products' = Append(products,
              Product(Len(products) + 1, u, t, s,
                      pageOf(u).retailer, pageOf(u).price, pageOf(u).imageUrl))
    /\ UNCHANGED <<fused, refused, fpc>>

\* a backend returns one more candidate, of a page and title not seen before
CollectDistinct ==
    /\ fpc = "collect"
    /\ Len(products) < MaxRanked
    /\ \E s \in RankSources, r \in Retailers, p \in Prices, i \in ImageUrls :
          products' = Append(products,
              Product(Len(products) + 1, Len(products) + 1,
                      titleOf(Len(products) + 1), s, r, p, i))
    /\ UNCHANGED <<fused, refused, fpc>>

\* a backend returns one more candidate of a long response
CollectMany ==
    /\ fpc = "collect"
    /\ Len(products) < MaxDistinct
    /\ \E s \in {"gemini_web_search", "bing_reverse"} :
          products' = Append(products,
              Product(Len(products) + 1, Len(products) + 1,
                      titleOf(Len(products) + 1), s,
                      "Amazon", "Price not available", ""))
    /\ UNCHANGED <<fused, refused, fpc>>

Fuse ==
    /\ fpc = "collect"
    /\ fused' = deduplicateAndRankProducts(products, anyItem)
    /\ fpc' = "fused"
    /\ UNCHANGED <<products, refused>>

FuseAgain ==
    /\ fpc = "fused"
    /\ refused' = deduplicateAndRankProducts(fused, anyItem)
    /\ fpc' = "refused"
    /\ UNCHANGED <<products, fused>>

(***************************************************************************)
(* ShoppingSearchService: searchProductsForExtractedItems                  *)
(*                                                                         *)
(* The text of a model response is abstracted to what JSON.parse makes of  *)
(* it: kind "no_json" (no braces), "malformed" (JSON.parse throws),        *)
(* "no_products" (an object without a products array) or "json", an object *)
(* whose products array holds raw products; a missing or empty member of a *)
(* raw product is 0 (url), <<>> (title) or "" (price, retailer).           *)
(***************************************************************************)
parseGeminiWebSearchResponse(response) ==
    IF response.kind # "json" THEN <<>>
    ELSE LET kept == SelectSeq(response.products,
                               LAMBDA product : product.url # 0 /\ product.title # <<>>)
         IN  [i \in 1..Len(kept) |->
                 [title |-> kept[i].title,
                  price |-> IF kept[i].price # "" THEN kept[i].price
                            ELSE "Price not available",
                  currency |-> "USD",
                  url |-> kept[i].url,
                  retailer |-> IF kept[i].retailer # "" THEN kept[i].retailer
                               ELSE "Unknown Store",
                  availability |-> "available",
                  source |-> "gemini_web_search"]]

\* a failed search answers with a stand-in product
searchWithGeminiWebSearchStandIn(fetched, response) ==
    IF fetched /\ response.kind # "error"
    THEN parseGeminiWebSearchResponse(response)
    ELSE << [title |-> <<"i","t","e","m">>, price |-> "Price not available",
             currency |-> "USD", url |-> 1, retailer |-> "Unknown Store",
             availability |-> "available", source |-> "gemini_web_search"] >>

\* what searchWithGeminiWebSearch (and so searchByImage) returns, given
\* whether the image fetch succeeded and what the model call produced
\* (kind "error": generateContent rejected); both catch blocks return []
searchWithGeminiWebSearch(fetched, response) ==
    IF ~fetched THEN <<>>
    ELSE IF response.kind = "error" THEN <<>>
    ELSE parseGeminiWebSearchResponse(response)

\* the record pushed for an item without image when a text search stands in
searchResultTextFallback(item, found) ==
    [itemId |-> item.id,
     pieceType |-> item.pieceType,
     extractedImageUrl |-> item.extractedImageUrl,
     products |-> found,
     searchMethod |-> IF item.extractedImageUrl = "" THEN "text_search"
                      ELSE IF Len(found) > 0 THEN "gemini_web_search"
                      ELSE "no_image_available",
     confidence |-> item.confidence,
     totalResults |-> Len(found)]

\* the record pushed to results in the try block
searchResult(item, found) ==
    [itemId |-> item.id,
     pieceType |-> item.pieceType,
     extractedImageUrl |-> item.extractedImageUrl,
     products |-> found,
     searchMethod |-> IF item.extractedImageUrl # "" /\ Len(found) > 0
                      THEN "gemini_web_search" ELSE "no_image_available",
     confidence |-> item.confidence,
     totalResults |-> Len(found)]

RawProducts ==
    { [url |-> 1, title |-> <<"R","e","d"," ","D","r","e","s","s">>,
       price |-> "$49.99", retailer |-> "Zara"],
      [url |-> 2, title |-> <<"K","i","d","s"," ","d","r","e","s","s">>,
       price |-> "", retailer |-> ""],
      [url |-> 0, title |-> <<"B","l","u","e"," ","B","a","g">>,
       price |-> "$49.99", retailer |-> "Zara"],
      [url |-> 2, title |-> <<>>, price |-> "$49.99", retailer |-> "Zara"] }

RECURSIVE SeqsUpTo(_, _)
SeqsUpTo(S, n) ==
    IF n = 0 THEN {<<>>}
    ELSE LET shorter == SeqsUpTo(S, n - 1)
         IN  shorter \cup {Append(q, x) : q \in shorter, x \in S}

\* what the model call can settle with
Responses ==
    { [kind |-> k, products |-> <<>>] : k \in {"error", "no_json", "malformed", "no_products"} }
    \cup { [kind |-> "json", products |-> q] : q \in SeqsUpTo(RawProducts, MaxResponse) }

SearchInit ==
    /\ genAI \in BOOLEAN
    /\ extractedItems = <<>>
    /\ idx = 1
    /\ spc = "idle"
    /\ results = <<>>
    /\ backend = <<>>
    /\ outcome = "pending"
    /\ delays = 0

SearchIdle ==
    /\ genAI = FALSE
    /\ extractedItems = <<>>
    /\ idx = 1
    /\ spc = "idle"
    /\ results = <<>>
    /\ backend = <<>>
    /\ outcome = "pending"
    /\ delays = 0

\* the caller puts one more extracted item in the argument list
ItemForSearch ==
    /\ spc = "idle"
    /\ Len(extractedItems) < MaxSearchItems
    /\ \E image \in {"", "https://items/crop.png"} :
          extractedItems' = Append(extractedItems,
              [id |-> Len(extractedItems) + 1, pieceType |-> <<"d","r","e","s","s">>,
               extractedImageUrl |-> image, confidence |-> 80])
    /\ backend' = Append(backend, "none")
    /\ UNCHANGED <<genAI, idx, spc, results, outcome, delays>>

\* searchProductsForExtractedItems is called
CallSearch ==
    /\ spc = "idle"
    /\ spc' = "loop"
    /\ UNCHANGED <<genAI, extractedItems, idx, results, backend, outcome, delays>>

\* an item without image is passed over without the pacing delay
BeginItemNoDelay ==
    /\ spc = "loop"
    /\ idx <= Len(extractedItems)
    /\ LET item == extractedItems[idx]
       IN  IF item.extractedImageUrl # "" /\ genAI
           THEN /\ spc' = "fetch"
                /\ backend' = [backend EXCEPT ![idx] = "in_flight"]
                /\ UNCHANGED <<results, idx>>
           ELSE /\ results' = Append(results, searchResult(item, <<>>))
                /\ idx' = idx + 1
                /\ UNCHANGED <<backend, spc>>
    /\ UNCHANGED <<genAI, extractedItems, outcome, delays>>

\* the loop takes the next item: without image, or without client, the result
\* is pushed at once and the pacing delay starts; otherwise the image fetch
\* of searchWithGeminiWebSearch is sent
BeginItem ==
    /\ spc = "loop"
    /\ idx <= Len(extractedItems)
    /\ LET item == extractedItems[idx]
       IN  IF item.extractedImageUrl # "" /\ genAI
           THEN /\ spc' = "fetch"
                /\ backend' = [backend EXCEPT ![idx] = "in_flight"]
                /\ UNCHANGED results
           ELSE /\ results' = Append(results, searchResult(item, <<>>))
                /\ spc' = "delay"
                /\ UNCHANGED backend
    /\ UNCHANGED <<genAI, extractedItems, idx, outcome, delays>>

\* axios.get settles: on success the model call is sent, on failure (timeout,
\* network, non-2xx) the catch returns [] and the result is pushed
FetchSettles ==
    /\ spc = "fetch"
    /\ \E fetched \in BOOLEAN :
          IF fetched
          THEN /\ spc' = "generate"
               /\ UNCHANGED <<results, backend>>
          ELSE /\ results' = Append(results,
                      searchResult(extractedItems[idx],
                                   searchWithGeminiWebSearch(FALSE, [kind |-> "error"])))
               /\ backend' = [backend EXCEPT ![idx] = "fetch_error"]
               /\ spc' = "delay"
    /\ UNCHANGED <<genAI, extractedItems, idx, outcome, delays>>

\* generateContent settles: the response is parsed and the result is pushed
GenerateSettles ==
    /\ spc = "generate"
    /\ \E response \in Responses :
          /\ results' = Append(results,
                 searchResult(extractedItems[idx],
                              searchWithGeminiWebSearch(TRUE, response)))
          /\ backend' = [backend EXCEPT ![idx] =
                 CASE response.kind = "error" -> "model_error"
                   [] response.kind \in {"no_json", "malformed"} -> "malformed"
                   [] OTHER -> "ok"]
    /\ spc' = "delay"
    /\ UNCHANGED <<genAI, extractedItems, idx, outcome, delays>>

\* the 1500 ms timer of the rate limiting fires
DelayElapsed ==
    /\ spc = "delay"
    /\ idx' = idx + 1
    /\ delays' = delays + 1
    /\ spc' = "loop"
    /\ UNCHANGED <<genAI, extractedItems, results, backend, outcome>>

\* the loop is over: return results
ReturnResults ==
    /\ spc = "loop"
    /\ idx > Len(extractedItems)
    /\ spc' = "done"
    /\ outcome' = "resolved"
    /\ UNCHANGED <<genAI, extractedItems, idx, results, backend, delays>>

(***************************************************************************)
(* ItemExtractionService: extractIndividualItems                           *)
(*                                                                         *)
(* The analysis call settles with kind "error" (generateContent or         *)
(* response.text() throws), kind "text" (JSON.parse throws on the text, or *)
(* its value is not an array) or kind "array" (the text holds a JSON array *)
(* of objects); a missing or empty string member of a raw item is <<>>, a  *)
(* missing bounding box Box(0, 0, 0, 0), a missing confidence 0.           *)
(***************************************************************************)
\* the hex digest of createHash('md5') cut to 8 characters, taken as
\* one-to-one on the texts hashed here
md5(text) == [md5 |-> text]

unset == <<>>

Unknown == <<"u","n","k","n","o","w","n">>

Various == <<"v","a","r","i","o","u","s">>

Solid == <<"s","o","l","i","d">>

\* parseGeminiResponse, the map over the parsed array (index is 0-based)
parsedItem(item, index, url) ==
    [id |-> <<"extracted-", md5(url \o decimal(index))>>,
     pieceType |-> IF item.pieceType # <<>> THEN item.pieceType ELSE Unknown,
     description |-> IF item.description # <<>> THEN item.description
                     ELSE (IF item.pieceType # <<>> THEN item.pieceType
                           ELSE <<"u","n","d","e","f","i","n","e","d">>) \o <<" ","i","t","e","m">>,
     boundingBox |-> IF item.boundingBox # Box(0, 0, 0, 0) THEN item.boundingBox
                     ELSE Box(10, 10, 80, 80),
     confidence |-> IF item.confidence # 0 THEN item.confidence ELSE 80,
     color |-> item.color,
     pattern |-> item.pattern,
     style |-> item.style,
     extractedImagePath |-> unset,
     extractedImageUrl |-> unset]

clothingTypes ==
    << <<"d","r","e","s","s">>, <<"s","h","i","r","t">>, <<"p","a","n","t","s">>, <<"s","h","o","e","s">>, <<"b","a","g">>, <<"s","u","n","g","l","a","s","s","e","s">>, <<"j","e","w","e","l","r","y">>,
       <<"j","a","c","k","e","t">>, <<"c","o","a","t">>, <<"s","k","i","r","t">>, <<"s","h","o","r","t","s">> >>

\* type.charAt(0).toUpperCase() + type.slice(1), of a lower-case word
capitalize(type) ==
    LET upper == CHOOSE i \in 1..26 : LowerLetters[i] = type[1]
    IN  <<UpperLetters[upper]>> \o Tail(type)

\* the entry pushed for clothingTypes[i] (i is 0-based)
regexItem(i) ==
    [id |-> <<"extracted-fallback-", i>>,
     pieceType |-> clothingTypes[i + 1],
     description |-> capitalize(clothingTypes[i + 1]) \o <<" ","i","d","e","n","t","i","f","i","e","d"," ","i","n"," ","f","l","a","t"," ","l","a","y">>,
     boundingBox |-> Box(10 + ((i * 10) % 80), 10 + (i \div 3) * 30, 30, 30),
     confidence |-> 70,
     color |-> Various,
     pattern |-> Unknown,
     style |-> <<"c","a","s","u","a","l">>,
     extractedImagePath |-> unset,
     extractedImageUrl |-> unset]

\* one entry per clothing type the text names (new RegExp(type, 'gi').test),
\* the first 5 of them
extractItemsWithRegex(analysisText) ==
    LET found == SelectSeq([k \in 1..Len(clothingTypes) |-> k - 1],
                           LAMBDA i : includes(toLowerCase(analysisText),
                                               clothingTypes[i + 1]))
        all == [k \in 1..Len(found) |-> regexItem(found[k])]
    IN  SubSeq(all, 1, Min(5, Len(all)))

\* parseGeminiResponse: the array mapped to items, or the keyword scan of
\* the catch block
parseGeminiResponse(response, url) ==
    IF response.kind = "array"
    THEN [k \in 1..Len(response.array) |-> parsedItem(response.array[k], k - 1, url)]
    ELSE extractItemsWithRegex(response.text)

fallbackItem(type, description, box, t) ==
    [id |-> <<"fallback-", type, t>>,
     pieceType |-> type,
     description |-> description,
     boundingBox |-> box,
     confidence |-> 60,
     color |-> Various,
     pattern |-> Unknown,
     style |-> <<"c","a","s","u","a","l">>,
     extractedImagePath |-> unset,
     extractedImageUrl |-> unset]

\* t is what Date.now() returns
generateFallbackItems(url, t) ==
    << fallbackItem(<<"d","r","e","s","s">>, <<"D","r","e","s","s"," ","f","r","o","m"," ","f","l","a","t"," ","l","a","y"," ","o","u","t","f","i","t">>, Box(20, 10, 60, 70), t),
       fallbackItem(<<"s","h","o","e","s">>, <<"S","h","o","e","s"," ","f","r","o","m"," ","f","l","a","t"," ","l","a","y"," ","o","u","t","f","i","t">>, Box(10, 80, 30, 15), t),
       fallbackItem(<<"b","a","g">>, <<"B","a","g"," ","f","r","o","m"," ","f","l","a","t"," ","l","a","y"," ","o","u","t","f","i","t">>, Box(70, 30, 25, 30), t) >>

\* the words enhanceItemDescription adds for the piece type
contextWords(pieceType) ==
    LET type == toLowerCase(pieceType)
    IN  CASE type = <<"d","r","e","s","s">> -> << <<"w","o","m","e","n","'","s">>, <<"f","a","s","h","i","o","n">> >>
          [] type = <<"s","h","o","e","s">> -> << <<"f","o","o","t","w","e","a","r">> >>
          [] type = <<"b","a","g">> -> << <<"h","a","n","d","b","a","g">>, <<"a","c","c","e","s","s","o","r","y">> >>
          [] type = <<"s","u","n","g","l","a","s","s","e","s">> -> << <<"e","y","e","w","e","a","r">>, <<"a","c","c","e","s","s","o","r","y">> >>
          [] OTHER -> <<>>

enhanceItemDescription(item) ==
    LET colorPart == IF item.color # <<>> /\ item.color # Various /\ item.color # Unknown
                     THEN <<item.color>> ELSE <<>>
        patternPart == IF item.pattern # <<>> /\ item.pattern # Solid
                          /\ item.pattern # Unknown
                       THEN <<item.pattern>> ELSE <<>>
        stylePart == IF item.style # <<>> /\ item.style # Unknown
                     THEN <<item.style>> ELSE <<>>
    IN  join(colorPart \o patternPart \o <<item.pieceType>> \o stylePart
             \o contextWords(item.pieceType), " ")

\* item_<md5(id + description)>_<Date.now()>.png
itemFilename(item, t) == [hash |-> md5(<<item.id, item.description>>), at |-> t]

\* path.join('public', 'generated', 'items', itemFilename)
itemPathOf(item, t) == <<"public/generated/items/", itemFilename(item, t)>>

\* the URL saveExtractedItemImage returns for a path
publicUrl(itemPath) == <<"http://localhost/generated/items/", itemPath[2]>>

\* what the crop calls of one item can settle with: the first call throws,
\* carries an image part or carries none; with none the retry of
\* tryAlternativeExtraction does one of the three; an image is saved or
\* fs.mkdir / fs.writeFile throws
CropResults ==
    { [crop |-> "throws", retry |-> "none", save |-> "none"] }
    \cup { [crop |-> "image", retry |-> "none", save |-> w] : w \in {"ok", "throws"} }
    \cup { [crop |-> "no_image", retry |-> r, save |-> "none"] : r \in {"throws", "no_image"} }
    \cup { [crop |-> "no_image", retry |-> "image", save |-> w] : w \in {"ok", "throws"} }

\* a failed save leaves the path set
cropItemKeepsPath(item, crop, t) ==
    LET itemPath == itemPathOf(item, t)
        enhanced == [item EXCEPT !.description = enhanceItemDescription(item)]
    IN  CASE crop.crop = "image" /\ crop.save = "ok" ->
                 [enhanced EXCEPT !.extractedImagePath = itemPath,
                                  !.extractedImageUrl = publicUrl(itemPath)]
          [] crop.crop = "image" /\ crop.save = "throws" ->
                 [enhanced EXCEPT !.extractedImagePath = itemPath]
          [] crop.crop = "no_image" /\ crop.retry = "image" /\ crop.save = "ok" ->
                 [enhanced EXCEPT !.extractedImageUrl = publicUrl(itemPath)]
          [] OTHER -> enhanced

\* the body of the for loop of generateItemImages: the item pushed for
\* `item` when its crop calls settle with `crop`
cropItem(item, crop, t) ==
    LET itemPath == itemPathOf(item, t)
        enhanced == [item EXCEPT !.description = enhanceItemDescription(item)]
    IN  CASE crop.crop = "image" /\ crop.save = "ok" ->
                 [enhanced EXCEPT !.extractedImagePath = itemPath,
                                  !.extractedImageUrl = publicUrl(itemPath)]
          [] crop.crop = "no_image" /\ crop.retry = "image" /\ crop.save = "ok" ->
                 [enhanced EXCEPT !.extractedImageUrl = publicUrl(itemPath)]
          [] OTHER -> enhanced

\* model calls one item costs: the crop call, and the retry if it ran
cropCalls(crop) == IF crop.retry = "none" THEN 1 ELSE 2

ImageRefs == { <<"a">>, <<"a","1">> }

RawItem(type, description, color, pattern, style, box, confidence) ==
    [pieceType |-> type, description |-> description, color |-> color,
     pattern |-> pattern, style |-> style, boundingBox |-> box,
     confidence |-> confidence]

RawItems ==
    { RawItem(<<"d","r","e","s","s">>, <<"R","e","d"," ","m","i","d","i"," ","d","r","e","s","s">>, <<"r","e","d">>, <<"f","l","o","r","a","l">>, <<"c","a","s","u","a","l">>,
              Box(20, 10, 60, 70), 95),
      RawItem(<<"s","h","o","e">>, <<"l","e","f","t"," ","b","l","a","c","k"," ","b","o","o","t">>, <<"b","l","a","c","k">>, Solid, <<>>,
              Box(10, 10, 40, 40), 90),
      RawItem(<<"B","o","o","t">>, <<"R","i","g","h","t"," "," ","b","l","a","c","k"," ","b","o","o","t">>, <<"b","l","a","c","k">>, <<>>, Unknown,
              Box(45, 10, 40, 40), 0),
      RawItem(<<"b","a","g">>, <<"T","o","t","e">>, Solid, Various, Various, Box(70, 30, 25, 30), 85),
      RawItem(<<>>, <<>>, <<>>, <<>>, <<>>, Box(0, 0, 0, 0), 0) }

AnalysisTexts ==
    { <<"I"," ","s","e","e"," ","n","o","t","h","i","n","g">>, <<"A"," ","D","r","e","s","s"," ","a","n","d"," ","S","H","O","E","S">>, <<"n","o","t"," ","j","s","o","n",":"," ","b","a","g">> }

\* what the analysis call can settle with
Analyses ==
    { [kind |-> "error", text |-> <<>>, array |-> <<>>] }
    \cup { [kind |-> "text", text |-> t, array |-> <<>>] : t \in AnalysisTexts }
    \cup { [kind |-> "array", text |-> <<>>, array |-> q] : q \in SeqsUpTo(RawItems, MaxParsed) }

NoAnalysis == [kind |-> "none", text |-> <<>>, array |-> <<>>]

ExtractIdle ==
    /\ model = FALSE
    /\ flatLayImageUrl = <<"a">>
    /\ now = 1
    /\ xpc = "idle"
    /\ calls = [fetch |-> 0, generate |-> 0]
    /\ imageFetch = "none"
    /\ analysis = NoAnalysis
    /\ deduplicatedItems = <<>>
    /\ crops = <<>>
    /\ itemsWithImages = <<>>
    /\ returned = <<>>
    /\ xoutcome = "pending"
    /\ earlier = <<>>

\* the service is constructed with or without the API key
ExtractInit ==
    /\ model \in BOOLEAN
    /\ flatLayImageUrl \in ImageRefs
    /\ now = 1
    /\ xpc = "idle"
    /\ calls = [fetch |-> 0, generate |-> 0]
    /\ imageFetch = "none"
    /\ analysis = NoAnalysis
    /\ deduplicatedItems = <<>>
    /\ crops = <<>>
    /\ itemsWithImages = <<>>
    /\ returned = <<>>
    /\ xoutcome = "pending"
    /\ earlier = <<>>

\* the call fetches the image although the service is not configured
CallExtractUnguarded ==
    /\ xpc = "idle"
    /\ xpc' = "fetch"
    /\ calls' = [calls EXCEPT !.fetch = @ + 1]
    /\ UNCHANGED <<xoutcome, model, flatLayImageUrl, now, imageFetch, analysis,
                   deduplicatedItems, crops, itemsWithImages, returned, earlier>>

\* extractIndividualItems is called: it throws if the service is not
\* configured, otherwise it sends the image fetch
CallExtract ==
    /\ xpc = "idle"
    /\ IF ~model
       THEN /\ xoutcome' = "rejected"
            /\ xpc' = "done"
            /\ UNCHANGED calls
       ELSE /\ xpc' = "fetch"
            /\ calls' = [calls EXCEPT !.fetch = @ + 1]
            /\ UNCHANGED xoutcome
    /\ UNCHANGED <<model, flatLayImageUrl, now, imageFetch, analysis,
                   deduplicatedItems, crops, itemsWithImages, returned, earlier>>

\* a failed image fetch rejects the call
ImageFetchSettlesRethrow ==
    /\ xpc = "fetch"
    /\ \E fetched \in BOOLEAN :
          IF fetched
          THEN /\ imageFetch' = "ok"
               /\ xpc' = "generate"
               /\ calls' = [calls EXCEPT !.generate = @ + 1]
               /\ UNCHANGED <<returned, xoutcome>>
          ELSE /\ imageFetch' = "failed"
               /\ xoutcome' = "rejected"
               /\ xpc' = "done"
               /\ UNCHANGED <<calls, returned>>
    /\ UNCHANGED <<model, flatLayImageUrl, now, analysis, deduplicatedItems,
                   crops, itemsWithImages, earlier>>

\* axios.get settles: on success the analysis call is sent, on failure
\* (network, timeout, non-2xx) the catch returns the fallback items
ImageFetchSettles ==
    /\ xpc = "fetch"
    /\ \E fetched \in BOOLEAN :
          IF fetched
          THEN /\ imageFetch' = "ok"
               /\ xpc' = "generate"
               /\ calls' = [calls EXCEPT !.generate = @ + 1]
               /\ UNCHANGED <<returned, xoutcome>>
          ELSE /\ imageFetch' = "failed"
               /\ returned' = generateFallbackItems(flatLayImageUrl, now)
               /\ xoutcome' = "resolved"
               /\ xpc' = "done"
               /\ UNCHANGED calls
    /\ UNCHANGED <<model, flatLayImageUrl, now, analysis, deduplicatedItems,
                   crops, itemsWithImages, earlier>>

\* the analysis call settles: on failure the catch returns the fallback
\* items, otherwise the response is parsed, duplicates are removed and
\* generateItemImages starts on what is left
AnalysisSettles ==
    /\ xpc = "generate"
    /\ \E response \in Analyses :
          /\ analysis' = response
          /\ IF response.kind = "error"
             THEN /\ returned' = generateFallbackItems(flatLayImageUrl, now)
                  /\ xoutcome' = "resolved"
                  /\ xpc' = "done"
                  /\ UNCHANGED deduplicatedItems
             ELSE /\ deduplicatedItems' =
                         removeDuplicateItems(parseGeminiResponse(response, flatLayImageUrl))
                  /\ xpc' = "images"
                  /\ UNCHANGED <<returned, xoutcome>>
    /\ UNCHANGED <<model, flatLayImageUrl, now, calls, imageFetch, crops,
                   itemsWithImages, earlier>>

\* one turn of the for loop of generateItemImages
ItemImage ==
    /\ xpc = "images"
    /\ Len(itemsWithImages) < Len(deduplicatedItems)
    /\ \E crop \in CropResults :
          /\ itemsWithImages' = Append(itemsWithImages,
                 cropItem(deduplicatedItems[Len(itemsWithImages) + 1], crop, now))
          /\ crops' = Append(crops, crop)
          /\ calls' = [calls EXCEPT !.generate = @ + cropCalls(crop)]
    /\ UNCHANGED <<model, flatLayImageUrl, now, xpc, imageFetch, analysis,
                   deduplicatedItems, returned, xoutcome, earlier>>

\* generateItemImages returns and so does extractIndividualItems
ReturnItems ==
    /\ xpc = "images"
    /\ Len(itemsWithImages) = Len(deduplicatedItems)
    /\ returned' = itemsWithImages
    /\ xoutcome' = "resolved"
    /\ xpc' = "done"
    /\ UNCHANGED <<model, flatLayImageUrl, now, calls, imageFetch, analysis,
                   deduplicatedItems, crops, itemsWithImages, earlier>>

\* what is compared between runs: id, type and description at each position
summaryOf(list) ==
    [k \in 1..Len(list) |->
        [id |-> list[k].id, pieceType |-> list[k].pieceType,
         description |-> list[k].description]]

\* the caller runs the extraction once more on the same image, later
RunAgain ==
    /\ xpc = "done"
    /\ xoutcome = "resolved"
    /\ now = 1
    /\ earlier' = summaryOf(returned)
    /\ now' = now + 1
    /\ xpc' = "idle"
    /\ calls' = [fetch |-> 0, generate |-> 0]
    /\ imageFetch' = "none"
    /\ analysis' = NoAnalysis
    /\ deduplicatedItems' = <<>>
    /\ crops' = <<>>
    /\ itemsWithImages' = <<>>
    /\ returned' = <<>>
    /\ xoutcome' = "pending"
    /\ UNCHANGED <<model, flatLayImageUrl>>

(***************************************************************************)
(* validatePagination and the handler behind it (ModelController.getModels) *)
(*                                                                         *)
(* A query parameter is a character sequence; <<>> is a parameter that is  *)
(* absent. A number is [nan |-> TRUE] or [nan |-> FALSE, value |-> n].     *)
(***************************************************************************)
NaN == [nan |-> TRUE, value |-> 0]

Number(n) == [nan |-> FALSE, value |-> n]

digitValue(c) == CHOOSE d \in 0..9 : decimal(d) = <<c>>

RECURSIVE digitsValue(_, _)
digitsValue(s, acc) ==
    IF s = <<>> \/ Head(s) \notin Digits THEN acc
    ELSE digitsValue(Tail(s), acc * 10 + digitValue(Head(s)))

RECURSIVE skipSpace(_)
skipSpace(s) == IF s # <<>> /\ isSpace(Head(s)) THEN skipSpace(Tail(s)) ELSE s

\* parseInt of a string, radix 10: leading white space, a sign, then digits
\* up to the first other character; NaN without a digit
parseInt(s) ==
    LET t == skipSpace(s)
        signed == t # <<>> /\ Head(t) \in {"-", "+"}
        body == IF signed THEN Tail(t) ELSE t
    IN  IF body = <<>> \/ Head(body) \notin Digits THEN NaN
        ELSE IF signed /\ Head(t) = "-" THEN Number(0 - digitsValue(body, 0))
        ELSE Number(digitsValue(body, 0))

\* number || fallback: NaN and 0 are falsy
orElse(number, fallback) ==
    IF number.nan \/ number.value = 0 THEN fallback ELSE number.value

\* Number.prototype.toString of an integer
RECURSIVE toString(_)
toString(n) ==
    IF n < 0 THEN <<"-">> \o toString(0 - n)
    ELSE IF n < 10 THEN decimal(n)
    ELSE toString(n \div 10) \o decimal(n % 10)

QueryValues ==
    { <<>>, <<"0">>, <<"1">>, <<"-","1">>, <<"2">>, <<"1","0","0">>, <<"1","0","1">>, <<"a","b","c">>, <<"7","x">>, <<" ","3">> }

PaginateIdle ==
    /\ received = [page |-> <<>>, limit |-> <<>>]
    /\ query = received
    /\ status = 0
    /\ nextCalls = 0
    /\ served = [page |-> 0, limit |-> 0]
    /\ vpc = "received"

\* a request GET /api/models?page=..&limit=.. arrives
PaginateInit ==
    /\ received \in [page : QueryValues, limit : QueryValues]
    /\ query = received
    /\ status = 0
    /\ nextCalls = 0
    /\ served = [page |-> 0, limit |-> 0]
    /\ vpc = "received"

\* validatePagination(req, res, next)
validatePagination ==
    /\ vpc = "received"
    /\ LET pageNumber == orElse(parseInt(query.page), 1)
           limit == orElse(parseInt(query.limit), 20)
       IN  IF pageNumber < 1
           THEN /\ status' = 400
                /\ vpc' = "done"
                /\ UNCHANGED <<query, nextCalls>>
           ELSE IF limit < 1 \/ limit > 100
           THEN /\ status' = 400
                /\ vpc' = "done"
                /\ UNCHANGED <<query, nextCalls>>
           ELSE /\ query' = [page |-> toString(pageNumber), limit |-> toString(limit)]
                /\ nextCalls' = nextCalls + 1
                /\ vpc' = "validated"
                /\ UNCHANGED status
    /\ UNCHANGED <<received, served>>

\* ModelController.getModels reads the parameters again and answers
getModels ==
    /\ vpc = "validated"
    /\ served' = [page |-> orElse(parseInt(query.page), 1),
                  limit |-> orElse(parseInt(query.limit), 20)]
    /\ status' = 200
    /\ vpc' = "done"
    /\ UNCHANGED <<received, query, nextCalls>>

(***************************************************************************)
(* ImageBasedShoppingService: findShoppingLinksForExtractedItems           *)
(*                                                                         *)
(* A strategy is a call that settles with a list of results; all four      *)
(* catch their own errors and answer [] then.                              *)
(***************************************************************************)
\* the k results a strategy returned
resultsOf(strategy, k) == [n \in 1..k |-> [source |-> strategy, rank |-> n]]

\* the record pushed to results in the try block
linkResult(item, shoppingResults) ==
    [itemId |-> item.id,
     pieceType |-> item.pieceType,
     extractedImageUrl |-> item.extractedImageUrl,
     results |-> SubSeq(shoppingResults, 1, Min(8, Len(shoppingResults))),
     searchMethod |-> IF Len(shoppingResults) > 0 THEN "image_based" ELSE "fallback",
     confidence |-> item.confidence]

\* the call of a strategy for the item the loop is at
invoke(strategy) ==
    [invoked EXCEPT ![linkIdx] = Append(@, [strategy |-> strategy, found |-> 0 - 1])]

\* the strategy running for the item the loop is at returns k results
settled(k) ==
    [invoked EXCEPT ![linkIdx] = [@ EXCEPT ![Len(@)] = [@ EXCEPT !.found = k]]]

\* how many results a strategy can return for an item: the upload search
\* answers [] for an item without extractedImagePath
Found(strategy, item) ==
    IF strategy = "image_upload" /\ item.extractedImagePath = "" THEN {0}
    ELSE 0..MaxFound

LinkIdle ==
    /\ linkItems = <<>>
    /\ linkIdx = 1
    /\ linkPc = "idle"
    /\ invoked = <<>>
    /\ linkResults = <<>>

\* the caller puts one more extracted item in the argument list
LinkItem ==
    /\ linkPc = "idle"
    /\ Len(linkItems) < MaxLinkItems
    /\ \E image \in {"", "https://items/crop.png"}, file \in {"", "public/crop.png"} :
          /\ image = "" => file = ""
          /\ linkItems' = Append(linkItems,
                [id |-> Len(linkItems) + 1, pieceType |-> <<"d","r","e","s","s">>,
                 extractedImageUrl |-> image, extractedImagePath |-> file,
                 confidence |-> 80])
    /\ invoked' = Append(invoked, <<>>)
    /\ UNCHANGED <<linkIdx, linkPc, linkResults>>

\* findShoppingLinksForExtractedItems is called
CallFindLinks ==
    /\ linkPc = "idle"
    /\ linkPc' = "loop"
    /\ UNCHANGED <<linkItems, linkIdx, invoked, linkResults>>

\* the loop takes the next item: with an image the reverse image search is
\* called, without one the text search
BeginLinkItem ==
    /\ linkPc = "loop"
    /\ linkIdx <= Len(linkItems)
    /\ IF linkItems[linkIdx].extractedImageUrl # ""
       THEN /\ invoked' = invoke("reverse_image")
            /\ linkPc' = "reverse"
       ELSE /\ invoked' = invoke("enhanced_text")
            /\ linkPc' = "text"
    /\ UNCHANGED <<linkItems, linkIdx, linkResults>>

\* the upload search is called whatever the reverse image search returned
ReverseSettlesThenUpload ==
    /\ linkPc = "reverse"
    /\ \E k \in Found("reverse_image", linkItems[linkIdx]) :
          /\ invoked' = [settled(k) EXCEPT ![linkIdx] =
                             Append(@, [strategy |-> "image_upload", found |-> 0 - 1])]
          /\ linkPc' = "upload"
          /\ UNCHANGED linkResults
    /\ UNCHANGED <<linkItems, linkIdx>>

\* performReverseImageSearch settles: with no result the upload search is
\* called, otherwise the result is pushed and the delay starts
ReverseSettles ==
    /\ linkPc = "reverse"
    /\ \E k \in Found("reverse_image", linkItems[linkIdx]) :
          IF k = 0
          THEN /\ invoked' = [settled(k) EXCEPT ![linkIdx] =
                                  Append(@, [strategy |-> "image_upload", found |-> 0 - 1])]
               /\ linkPc' = "upload"
               /\ UNCHANGED linkResults
          ELSE /\ invoked' = settled(k)
               /\ linkResults' = Append(linkResults,
                      linkResult(linkItems[linkIdx], resultsOf("reverse_image", k)))
               /\ linkPc' = "delay"
    /\ UNCHANGED <<linkItems, linkIdx>>

\* performImageUploadSearch settles
UploadSettles ==
    /\ linkPc = "upload"
    /\ \E k \in Found("image_upload", linkItems[linkIdx]) :
          IF k = 0
          THEN /\ invoked' = [settled(k) EXCEPT ![linkIdx] =
                                  Append(@, [strategy |-> "serp_api", found |-> 0 - 1])]
               /\ linkPc' = "serp"
               /\ UNCHANGED linkResults
          ELSE /\ invoked' = settled(k)
               /\ linkResults' = Append(linkResults,
                      linkResult(linkItems[linkIdx], resultsOf("image_upload", k)))
               /\ linkPc' = "delay"
    /\ UNCHANGED <<linkItems, linkIdx>>

\* performSerpApiImageSearch settles
SerpSettles ==
    /\ linkPc = "serp"
    /\ \E k \in Found("serp_api", linkItems[linkIdx]) :
          IF k = 0
          THEN /\ invoked' = [settled(k) EXCEPT ![linkIdx] =
                                  Append(@, [strategy |-> "enhanced_text", found |-> 0 - 1])]
               /\ linkPc' = "text"
               /\ UNCHANGED linkResults
          ELSE /\ invoked' = settled(k)
               /\ linkResults' = Append(linkResults,
                      linkResult(linkItems[linkIdx], resultsOf("serp_api", k)))
               /\ linkPc' = "delay"
    /\ UNCHANGED <<linkItems, linkIdx>>

\* performEnhancedTextSearch settles: the result is pushed
TextSettles ==
    /\ linkPc = "text"
    /\ \E k \in Found("enhanced_text", linkItems[linkIdx]) :
          /\ invoked' = settled(k)
          /\ linkResults' = Append(linkResults,
                 linkResult(linkItems[linkIdx], resultsOf("enhanced_text", k)))
    /\ linkPc' = "delay"
    /\ UNCHANGED <<linkItems, linkIdx>>

\* the 500 ms timer fires
LinkDelayElapsed ==
    /\ linkPc = "delay"
    /\ linkIdx' = linkIdx + 1
    /\ linkPc' = "loop"
    /\ UNCHANGED <<linkItems, invoked, linkResults>>

\* the loop is over: return results
ReturnLinks ==
    /\ linkPc = "loop"
    /\ linkIdx > Len(linkItems)
    /\ linkPc' = "done"
    /\ UNCHANGED <<linkItems, linkIdx, invoked, linkResults>>
(***************************************************************************)
(* useInfiniteScroll                                                       *)
(*                                                                         *)
(* The callbacks of a render (fetchItems, loadMore, the observer callback, *)
(* refetch) read the state of that render; a state update shows in them    *)
(* only after the next render.  A page of models is its page number, the   *)
(* sample data shown after a failure of page 1 is 0.                       *)
(***************************************************************************)
\* response.data of api.getModels(pageNum, ITEMS_PER_PAGE)
pageData(pageNum) == IF pageNum <= TotalPages THEN <<pageNum>> ELSE <<>>

\* the fallbackItems of fetchItems
fallbackItems == <<0>>

\* the state a render shows and its callbacks close over
snapshot ==
    [mounted |-> TRUE, length |-> Len(scrollItems), loading |-> loading,
     hasMore |-> hasMore, page |-> page, error |-> error]

\* api.getModels(pageNum, ITEMS_PER_PAGE) is called
request(pageNum, by) ==
    /\ inflight' = Append(inflight, pageNum)
    /\ requested' = Append(requested,
           [page |-> pageNum, by |-> by, overlapping |-> inflight # <<>>,
            stale |-> by # "effect" /\ rendered # snapshot])

ScrollIdle ==
    /\ scrollItems = <<>>
    /\ loading = FALSE
    /\ hasMore = TRUE
    /\ page = 1
    /\ error = FALSE
    /\ rendered = [mounted |-> FALSE, length |-> 0, loading |-> FALSE,
                   hasMore |-> TRUE, page |-> 1, error |-> FALSE]
    /\ inflight = <<>>
    /\ requested = <<>>
    /\ failed = 0

\* the component renders with the current state; the initial-load effect runs
\* when items.length or fetchItems changed and calls fetchItems(1) of this
\* render when there are no items
Render ==
    /\ rendered # snapshot
    /\ rendered' = snapshot
    /\ IF /\ \/ ~rendered.mounted
             \/ rendered.length # Len(scrollItems)
             \/ rendered.loading # loading
          /\ Len(scrollItems) = 0
          /\ ~loading
       THEN /\ Len(requested) < MaxRequests
            /\ loading' = TRUE
            /\ error' = FALSE
            /\ request(1, "effect")
       ELSE UNCHANGED <<loading, error, inflight, requested>>
    /\ UNCHANGED <<scrollItems, hasMore, page, failed>>

\* the IntersectionObserver callback of the last render with the sentinel in
\* view: loadMore, then fetchItems(nextPage)
Intersect ==
    /\ rendered.mounted
    /\ rendered.hasMore /\ ~rendered.loading
    /\ rendered.page < MaxPage
    /\ Len(requested) < MaxRequests
    /\ page' = rendered.page + 1
    /\ loading' = TRUE
    /\ error' = FALSE
    /\ request(rendered.page + 1, "loadMore")
    /\ failed' = 0
    /\ UNCHANGED <<scrollItems, hasMore, rendered>>

\* the Retry button, shown by a render with an error, is clicked: refetch
Refetch ==
    /\ rendered.mounted
    /\ rendered.error
    /\ scrollItems' = <<>>
    /\ page' = 1
    /\ hasMore' = TRUE
    /\ error' = FALSE
    /\ IF rendered.loading
       THEN UNCHANGED <<loading, inflight, requested>>
       ELSE /\ Len(requested) < MaxRequests
            /\ loading' = TRUE
            /\ request(1, "refetch")
    /\ failed' = 0
    /\ UNCHANGED rendered

\* a getModels request settles, with a page or with an error
Settle ==
    /\ \E i \in 1..Len(inflight), ok \in BOOLEAN :
          LET pageNum == inflight[i] IN
          /\ inflight' = SubSeq(inflight, 1, i - 1) \o SubSeq(inflight, i + 1, Len(inflight))
          /\ IF ok
             THEN /\ scrollItems' = IF pageNum = 1 THEN pageData(pageNum)
                                    ELSE scrollItems \o pageData(pageNum)
                  /\ hasMore' = (pageNum < TotalPages)
                  /\ UNCHANGED <<error, failed>>
             ELSE /\ error' = TRUE
                  /\ IF pageNum = 1
                     THEN /\ scrollItems' = fallbackItems
                          /\ hasMore' = FALSE
                          /\ UNCHANGED failed
                     ELSE /\ failed' = pageNum
                          /\ UNCHANGED <<scrollItems, hasMore>>
    /\ loading' = FALSE
    /\ UNCHANGED <<page, rendered, requested>>
InitDedup == DedupInit /\ FuseInit /\ SearchIdle /\ ExtractIdle /\ LinkIdle /\ ScrollIdle /\ PaginateIdle

NextDedup ==
    \/ ParseItem /\ UNCHANGED <<fuseVars, searchVars, extractVars, linkVars, scrollVars, paginateVars>>
    \/ RemoveDuplicates /\ UNCHANGED <<fuseVars, searchVars, extractVars, linkVars, scrollVars, paginateVars>>

SpecDedup == InitDedup /\ [][NextDedup]_vars

InitFuse == FuseInit /\ DedupInit /\ SearchIdle /\ ExtractIdle /\ LinkIdle /\ ScrollIdle /\ PaginateIdle

NextFuse ==
    \/ CollectCandidate /\ UNCHANGED <<dedupVars, searchVars, extractVars, linkVars, scrollVars, paginateVars>>
    \/ Fuse /\ UNCHANGED <<dedupVars, searchVars, extractVars, linkVars, scrollVars, paginateVars>>
    \/ FuseAgain /\ UNCHANGED <<dedupVars, searchVars, extractVars, linkVars, scrollVars, paginateVars>>

SpecFuse == InitFuse /\ [][NextFuse]_vars

NextRank ==
    \/ CollectDistinct /\ UNCHANGED <<dedupVars, searchVars, extractVars, linkVars, scrollVars, paginateVars>>
    \/ Fuse /\ UNCHANGED <<dedupVars, searchVars, extractVars, linkVars, scrollVars, paginateVars>>

SpecRank == InitFuse /\ [][NextRank]_vars

NextCap ==
    \/ CollectMany /\ UNCHANGED <<dedupVars, searchVars, extractVars, linkVars, scrollVars, paginateVars>>
    \/ Fuse /\ UNCHANGED <<dedupVars, searchVars, extractVars, linkVars, scrollVars, paginateVars>>

SpecCap == InitFuse /\ [][NextCap]_vars

InitSearch == SearchInit /\ DedupInit /\ FuseInit /\ ExtractIdle /\ LinkIdle /\ ScrollIdle /\ PaginateIdle

NextSearch ==
    \/ ItemForSearch /\ UNCHANGED <<dedupVars, fuseVars, extractVars, linkVars, scrollVars, paginateVars>>
    \/ CallSearch /\ UNCHANGED <<dedupVars, fuseVars, extractVars, linkVars, scrollVars, paginateVars>>
    \/ BeginItem /\ UNCHANGED <<dedupVars, fuseVars, extractVars, linkVars, scrollVars, paginateVars>>
    \/ FetchSettles /\ UNCHANGED <<dedupVars, fuseVars, extractVars, linkVars, scrollVars, paginateVars>>
    \/ GenerateSettles /\ UNCHANGED <<dedupVars, fuseVars, extractVars, linkVars, scrollVars, paginateVars>>
    \/ DelayElapsed /\ UNCHANGED <<dedupVars, fuseVars, extractVars, linkVars, scrollVars, paginateVars>>
    \/ ReturnResults /\ UNCHANGED <<dedupVars, fuseVars, extractVars, linkVars, scrollVars, paginateVars>>

SpecSearch == InitSearch /\ [][NextSearch]_vars

InitExtract == ExtractInit /\ DedupInit /\ FuseInit /\ SearchIdle /\ LinkIdle /\ ScrollIdle /\ PaginateIdle

NextExtract ==
    \/ CallExtract /\ UNCHANGED <<dedupVars, fuseVars, searchVars, linkVars, scrollVars, paginateVars>>
    \/ ImageFetchSettles /\ UNCHANGED <<dedupVars, fuseVars, searchVars, linkVars, scrollVars, paginateVars>>
    \/ AnalysisSettles /\ UNCHANGED <<dedupVars, fuseVars, searchVars, linkVars, scrollVars, paginateVars>>
    \/ ItemImage /\ UNCHANGED <<dedupVars, fuseVars, searchVars, linkVars, scrollVars, paginateVars>>
    \/ ReturnItems /\ UNCHANGED <<dedupVars, fuseVars, searchVars, linkVars, scrollVars, paginateVars>>

SpecExtract == InitExtract /\ [][NextExtract]_vars

NextRerun ==
    \/ CallExtract /\ UNCHANGED <<dedupVars, fuseVars, searchVars, linkVars, scrollVars, paginateVars>>
    \/ ImageFetchSettles /\ UNCHANGED <<dedupVars, fuseVars, searchVars, linkVars, scrollVars, paginateVars>>
    \/ AnalysisSettles /\ UNCHANGED <<dedupVars, fuseVars, searchVars, linkVars, scrollVars, paginateVars>>
    \/ ItemImage /\ UNCHANGED <<dedupVars, fuseVars, searchVars, linkVars, scrollVars, paginateVars>>
    \/ ReturnItems /\ UNCHANGED <<dedupVars, fuseVars, searchVars, linkVars, scrollVars, paginateVars>>
    \/ RunAgain /\ UNCHANGED <<dedupVars, fuseVars, searchVars, linkVars, scrollVars, paginateVars>>

SpecRerun == InitExtract /\ [][NextRerun]_vars

InitPaginate ==
    PaginateInit /\ DedupInit /\ FuseInit /\ SearchIdle /\ ExtractIdle /\ LinkIdle /\ ScrollIdle

NextPaginate ==
    \/ validatePagination
          /\ UNCHANGED <<dedupVars, fuseVars, searchVars, extractVars, linkVars, scrollVars>>
    \/ getModels
          /\ UNCHANGED <<dedupVars, fuseVars, searchVars, extractVars, linkVars, scrollVars>>

SpecPaginate == InitPaginate /\ [][NextPaginate]_vars

InitLinks ==
    LinkIdle /\ DedupInit /\ FuseInit /\ SearchIdle /\ ExtractIdle /\ ScrollIdle /\ PaginateIdle

NextLinks ==
    \/ LinkItem
          /\ UNCHANGED <<dedupVars, fuseVars, searchVars, extractVars, scrollVars, paginateVars>>
    \/ CallFindLinks
          /\ UNCHANGED <<dedupVars, fuseVars, searchVars, extractVars, scrollVars, paginateVars>>
    \/ BeginLinkItem
          /\ UNCHANGED <<dedupVars, fuseVars, searchVars, extractVars, scrollVars, paginateVars>>
    \/ ReverseSettles
          /\ UNCHANGED <<dedupVars, fuseVars, searchVars, extractVars, scrollVars, paginateVars>>
    \/ UploadSettles
          /\ UNCHANGED <<dedupVars, fuseVars, searchVars, extractVars, scrollVars, paginateVars>>
    \/ SerpSettles
          /\ UNCHANGED <<dedupVars, fuseVars, searchVars, extractVars, scrollVars, paginateVars>>
    \/ TextSettles
          /\ UNCHANGED <<dedupVars, fuseVars, searchVars, extractVars, scrollVars, paginateVars>>
    \/ LinkDelayElapsed
          /\ UNCHANGED <<dedupVars, fuseVars, searchVars, extractVars, scrollVars, paginateVars>>
    \/ ReturnLinks
          /\ UNCHANGED <<dedupVars, fuseVars, searchVars, extractVars, scrollVars, paginateVars>>

SpecLinks == InitLinks /\ [][NextLinks]_vars

InitScroll ==
    ScrollIdle /\ DedupInit /\ FuseInit /\ SearchIdle /\ ExtractIdle /\ LinkIdle /\ PaginateIdle

NextScroll ==
    \/ Render
          /\ UNCHANGED <<dedupVars, fuseVars, searchVars, extractVars, linkVars, paginateVars>>
    \/ Intersect
          /\ UNCHANGED <<dedupVars, fuseVars, searchVars, extractVars, linkVars, paginateVars>>
    \/ Refetch
          /\ UNCHANGED <<dedupVars, fuseVars, searchVars, extractVars, linkVars, paginateVars>>
    \/ Settle
          /\ UNCHANGED <<dedupVars, fuseVars, searchVars, extractVars, linkVars, paginateVars>>

SpecScroll == InitScroll /\ [][NextScroll]_vars

(***************************************************************************)
(* Properties                                                              *)
(***************************************************************************)
PairDuplicatePredicate(a, b) ==
    /\ normalizePieceType(a.pieceType) \in pairedTypes
    /\ pairDuplicate(a, b)

\* C1: the list returned by removeDuplicateItems contains no two items that
\* satisfy the pair-duplicate predicate (same canonical paired type, colors
\* matching by group, description overlap > 0.6 or box overlap > 0.3)
NoPairDuplicates ==
    ipc = "deduped" =>
        \A i, j \in 1..Len(deduped) :
            i # j => ~PairDuplicatePredicate(deduped[i], deduped[j])

titleKeyOf(product) == normalizeProductTitle(product.title)

PairwiseDistinct(list) ==
    \A i, j \in 1..Len(list) :
        i # j => /\ list[i].url # list[j].url
                 /\ titleKeyOf(list[i]) # titleKeyOf(list[j])

\* C2: the list returned by deduplicateAndRankProducts has pairwise distinct
\* URLs and pairwise distinct normalized titles, and two candidates with an
\* identical URL leave exactly one in the output
FusedDistinct ==
    fpc # "collect" =>
        /\ PairwiseDistinct(fused)
        /\ (Len(products) = 2 /\ products[1].url = products[2].url) => Len(fused) = 1

\* a URL duplicate and a title collision between different titles, one survivor
FusedDistinctWitness ==
    /\ fpc = "fused"
    /\ Len(products) = 3
    /\ products[1].url = products[2].url
    /\ products[3].url # products[1].url
    /\ products[3].title # products[1].title
    /\ titleKeyOf(products[3]) = titleKeyOf(products[1])
    /\ Len(fused) = 1

\* C3: in every result of searchProductsForExtractedItems no two products
\* share a URL and no two share a normalized title, whatever the backend
\* returned
ResultsAreFused ==
    \A i \in 1..Len(results) : PairwiseDistinct(results[i].products)

\* C4: the list returned by deduplicateAndRankProducts never has more than
\* 8 entries
FusedWithinCap ==
    fpc # "collect" => Len(fused) <= 8

\* C5: the list returned by deduplicateAndRankProducts is sorted by
\* non-increasing relevance score, and candidates of equal score are in the
\* order in which they arrived
FusedSortedStable ==
    fpc # "collect" =>
        \A i, j \in 1..Len(fused) :
            i < j => /\ fused[i].relevanceScore >= fused[j].relevanceScore
                     /\ fused[i].relevanceScore = fused[j].relevanceScore
                            => fused[i].pos < fused[j].pos

\* the sort moved the last candidate to the front
FusedSortedStableWitness ==
    /\ fpc = "fused"
    /\ Len(products) = 3
    /\ Len(fused) = 2
    /\ fused[1].pos = 3
    /\ fused[2].pos = 1
    /\ fused[1].relevanceScore > fused[2].relevanceScore

\* C6: fusion is idempotent: deduplicateAndRankProducts applied to its own
\* output returns the same candidates in the same order
FuseIdempotent ==
    fpc = "refused" => refused = fused

\* the first pass dropped a candidate and reordered the others
FuseIdempotentWitness ==
    /\ fpc = "refused"
    /\ Len(products) = 3
    /\ Len(fused) = 2
    /\ fused[1].pos > fused[2].pos
    /\ refused = fused

SameAttributes(a, b) ==
    /\ (a.retailer \in preferredRetailers) = (b.retailer \in preferredRetailers)
    /\ (a.price # "" /\ a.price # "Price not available")
           = (b.price # "" /\ b.price # "Price not available")
    /\ (a.imageUrl # "") = (b.imageUrl # "")

\* C7: of two surviving candidates with the same retailer-preference,
\* price-presence and image-presence, the one from the higher-trust source
\* has a score at least as high and is never placed after the other
TrustMonotonic ==
    fpc # "collect" =>
        \A i, j \in 1..Len(fused) :
            (/\ SameAttributes(fused[i], fused[j])
             /\ getSourceScore(fused[i].source) > getSourceScore(fused[j].source))
            => /\ fused[i].relevanceScore >= fused[j].relevanceScore
               /\ i < j

\* the higher-trust candidate arrived second and is ranked first
TrustMonotonicWitness ==
    /\ fpc = "fused"
    /\ Len(fused) = 2
    /\ SameAttributes(fused[1], fused[2])
    /\ getSourceScore(fused[1].source) > getSourceScore(fused[2].source)
    /\ fused[1].pos = 2

\* C8: for an item with no extractedImageUrl no backend call is made and the
\* result has an empty products list, totalResults 0 and searchMethod
\* "no_image_available"
NoImageNoSearch ==
    \A i \in 1..Len(extractedItems) :
        extractedItems[i].extractedImageUrl = "" =>
            /\ backend[i] = "none"
            /\ i <= Len(results) =>
                  /\ results[i].products = <<>>
                  /\ results[i].totalResults = 0
                  /\ results[i].searchMethod = "no_image_available"

\* an item without image between two items that were searched
NoImageNoSearchWitness ==
    /\ spc = "done"
    /\ Len(extractedItems) = 3
    /\ extractedItems[2].extractedImageUrl = ""
    /\ backend[1] = "ok" /\ backend[2] = "none" /\ backend[3] = "ok"
    /\ results[2].searchMethod = "no_image_available"
    /\ results[1].products # <<>>

BackendFailed(i) == backend[i] \in {"fetch_error", "model_error", "malformed"}

\* C9: searchProductsForExtractedItems never rejects; it resolves with one
\* result per input item, in input order and with the item's id; an item
\* whose backend call failed has an empty products list and every later
\* item is still searched
SearchNeverFails ==
    /\ outcome # "rejected"
    /\ \A i \in 1..Len(results) :
          /\ results[i].itemId = extractedItems[i].id
          /\ BackendFailed(i) => results[i].products = <<>>
    /\ spc = "done" =>
          /\ outcome = "resolved"
          /\ Len(results) = Len(extractedItems)
          /\ \A i \in 1..Len(extractedItems) :
                (genAI /\ extractedItems[i].extractedImageUrl # "")
                    => backend[i] \notin {"none", "in_flight"}

\* a fetch failure, then a malformed response, then a successful search
SearchNeverFailsWitness ==
    /\ spc = "done"
    /\ Len(extractedItems) = 3
    /\ backend[1] = "fetch_error"
    /\ backend[2] = "malformed"
    /\ backend[3] = "ok"
    /\ results[3].products # <<>>

InList(item, list) == \E k \in 1..Len(list) : list[k].id = item.id

\* two reports of one paired item: the same canonical paired type, the same
\* color, descriptions that differ, and only in left/right/pair words, and
\* bounding boxes that overlap
ReportedTwice(a, b) ==
    /\ normalizePieceType(a.pieceType) \in pairedTypes
    /\ normalizePieceType(a.pieceType) = normalizePieceType(b.pieceType)
    /\ a.color = b.color
    /\ a.description # b.description
    /\ normalizeDescription(a.description) = normalizeDescription(b.description)
    /\ calculateSpatialSimilarity(a.boundingBox, b.boundingBox).n > 0

\* C10: when two items are reports of one paired item (same canonical paired
\* type, same color, descriptions that differ only in left/right/pair words,
\* overlapping boxes) the earlier is kept and the later dropped, so exactly
\* one item of that paired type is in the output
PairReportedTwiceKeptOnce ==
    ipc = "deduped" =>
        \A i, j \in 1..Len(items) :
            (i < j /\ ReportedTwice(items[i], items[j])) =>
                /\ ~(InList(items[i], deduped) /\ InList(items[j], deduped))
                /\ Len(items) = 2 => deduped = <<items[1]>>

\* C11: when the generative backend is not configured, extractIndividualItems
\* fails with an error before it fetches the image or calls the model, and
\* produces no items (the placeholder fallback is not used)
NotConfiguredFailsFirst ==
    ~model =>
        /\ calls = [fetch |-> 0, generate |-> 0]
        /\ returned = <<>>
        /\ xoutcome # "resolved"
        /\ xpc = "done" => xoutcome = "rejected"

NotConfiguredFailsFirstWitness == ~model /\ xpc = "done" /\ xoutcome = "rejected"

\* C12: when fetching the flat-lay image fails, extractIndividualItems fails
\* with an error rather than returning a list of items
FetchFailureRejects ==
    (imageFetch = "failed" /\ xpc = "done") =>
        /\ xoutcome = "rejected"
        /\ returned = <<>>

\* C12, as the code has it: when fetching the flat-lay image fails,
\* extractIndividualItems makes no model call and resolves with the three
\* placeholder items (dress, shoes, bag; confidence 0.6; no image)
FetchFailureFallsBack ==
    imageFetch = "failed" =>
        /\ xpc = "done"
        /\ xoutcome = "resolved"
        /\ calls.generate = 0
        /\ [k \in 1..Len(returned) |-> returned[k].pieceType]
              = << <<"d","r","e","s","s">>, <<"s","h","o","e","s">>, <<"b","a","g">> >>
        /\ \A k \in 1..Len(returned) :
              /\ returned[k].confidence = 60
              /\ returned[k].extractedImageUrl = unset
              /\ returned[k].extractedImagePath = unset

FetchFailureFallsBackWitness ==
    imageFetch = "failed" /\ xpc = "done" /\ Len(returned) = 3

ExtractionFailed ==
    \/ imageFetch = "failed"
    \/ analysis.kind \in {"error", "text"}

\* C13: when the generative backend is configured, every extraction-level
\* failure (image fetch failure, model call failure, a response that cannot
\* be parsed as a JSON array) makes extractIndividualItems resolve with a
\* non-empty list of items
FailuresYieldItems ==
    (model /\ xpc = "done" /\ ExtractionFailed) =>
        /\ xoutcome = "resolved"
        /\ returned # <<>>

SameItems(summary, list) ==
    /\ Len(summary) = Len(list)
    /\ \A k \in 1..Len(list) :
          /\ summary[k].pieceType = list[k].pieceType
          /\ summary[k].description = list[k].description

\* C14: item ids are stable across runs: two runs on the same image reference
\* that yield the same items in the same order assign the same id to every
\* position, on every path (parsed JSON, keyword scan, placeholders)
IdsStableAcrossRuns ==
    (now = 2 /\ xpc = "done" /\ xoutcome = "resolved" /\ SameItems(earlier, returned)) =>
        \A k \in 1..Len(returned) : earlier[k].id = returned[k].id

\* C15: in every item extractIndividualItems returns, extractedImageUrl and
\* extractedImagePath are both set or both unset, whether the image came
\* from the first crop call or from the retry
ImageUrlAndPathTogether ==
    \A k \in 1..Len(returned) :
        (returned[k].extractedImageUrl = unset) <=> (returned[k].extractedImagePath = unset)

CropFailed(crop) ==
    crop.crop = "throws" \/ crop.retry = "throws" \/ crop.save = "throws"

\* C16: generateItemImages returns the items it was given, in the same order
\* and with the same ids (it rewrites the description and may set the two
\* image fields, nothing else); an item whose crop call, retry or image save
\* failed is returned with neither image field set, and the items after it
\* are still processed
GenerateItemImagesFrame ==
    /\ Len(itemsWithImages) <= Len(deduplicatedItems)
    /\ Len(crops) = Len(itemsWithImages)
    /\ \A k \in 1..Len(itemsWithImages) :
          /\ itemsWithImages[k].id = deduplicatedItems[k].id
          /\ itemsWithImages[k] =
                [deduplicatedItems[k] EXCEPT
                    !.description = itemsWithImages[k].description,
                    !.extractedImageUrl = itemsWithImages[k].extractedImageUrl,
                    !.extractedImagePath = itemsWithImages[k].extractedImagePath]
          /\ CropFailed(crops[k]) =>
                /\ itemsWithImages[k].extractedImageUrl = unset
                /\ itemsWithImages[k].extractedImagePath = unset
    /\ (xpc = "done" /\ analysis.kind \in {"text", "array"}) =>
          /\ returned = itemsWithImages
          /\ Len(returned) = Len(deduplicatedItems)

GenerateItemImagesFrameWitness ==
    /\ xpc = "done"
    /\ Len(returned) = 2
    /\ crops[1].save = "throws"
    /\ crops[2].save = "ok"
    /\ returned[1].extractedImageUrl = unset
    /\ returned[2].extractedImageUrl # unset

\* C17: searchProductsForExtractedItems processes the items one at a time in
\* input order: the backend call of an item starts only after the results of
\* all items before it are recorded and the pacing delay after each of them
\* has elapsed (also after an item without image or a failed search), so at
\* most one backend call is in flight
SequentialPacing ==
    /\ Cardinality({i \in 1..Len(backend) : backend[i] = "in_flight"}) <= 1
    /\ Len(results) <= delays + 1
    /\ \A i \in 1..Len(backend) :
          /\ backend[i] # "none" =>
                /\ Len(results) >= i - 1
                /\ delays >= i - 1
                /\ \A j \in 1..(i - 1) : backend[j] # "in_flight"
          /\ backend[i] = "in_flight" =>
                /\ Len(results) = i - 1
                /\ delays = i - 1
                /\ \A j \in (i + 1)..Len(backend) : backend[j] = "none"

SequentialPacingWitness ==
    /\ Len(backend) >= 3
    /\ backend[1] = "fetch_error"
    /\ extractedItems[2].extractedImageUrl = ""
    /\ backend[3] = "in_flight"
    /\ delays = 2

\* the spec's reference, phase 1: drop every candidate whose URL is that of
\* an earlier candidate (the first one with a URL is the one kept)
urlDedupReference(list) ==
    LET keep == SelectSeq([k \in 1..Len(list) |-> k],
                          LAMBDA k : \A j \in 1..(k - 1) : list[j].url # list[k].url)
    IN  [i \in 1..Len(keep) |-> list[keep[i]]]

\* phase 2: on a title collision keep the one of higher trust, the earlier
\* one on a tie
RECURSIVE titleDedupReference(_, _)
titleDedupReference(kept, rest) ==
    IF rest = <<>> THEN kept
    ELSE LET p == Head(rest)
             same == {i \in 1..Len(kept) : titleKeyOf(kept[i]) = titleKeyOf(p)}
         IN  IF same = {} THEN titleDedupReference(Append(kept, p), Tail(rest))
             ELSE LET i == CHOOSE x \in same : TRUE
                  IN  IF getSourceScore(p.source) > getSourceScore(kept[i].source)
                      THEN titleDedupReference(
                               Append(SubSeq(kept, 1, i - 1) \o SubSeq(kept, i + 1, Len(kept)), p),
                               Tail(rest))
                      ELSE titleDedupReference(kept, Tail(rest))

positionsOf(list) == {list[i].pos : i \in 1..Len(list)}

\* C18: deduplicateAndRankProducts keeps the same candidates as the two-phase
\* reference (URL dedup, then title dedup of the survivors); in particular no
\* candidate whose URL is that of an earlier candidate is in the output
FuseRefinesTwoPhase ==
    fpc # "collect" =>
        /\ positionsOf(fused) = positionsOf(titleDedupReference(<<>>, urlDedupReference(products)))
        /\ \A i \in 1..Len(fused) :
              \A j \in 1..(fused[i].pos - 1) : products[j].url # fused[i].url

\* the loop state after the first k candidates
afterPrefix(k) ==
    dedupLoop([seenUrls |-> {}, seenTitles |-> <<>>, unique |-> <<>>],
              SubSeq(products, 1, k))

\* the kept candidate with the title key of p is replaced by p if p is of
\* strictly higher trust, and stays, with p dropped, if not
ReplacedIffMoreTrusted(k, e) ==
    LET p == products[k + 1]
        kept == positionsOf(afterPrefix(k + 1).unique)
    IN  IF getSourceScore(p.source) > getSourceScore(e.source)
        THEN p.pos \in kept /\ e.pos \notin kept
        ELSE e.pos \in kept /\ p.pos \notin kept

\* C19: when a later candidate's normalized title equals that of an
\* already-kept candidate, the kept one is replaced by the later one exactly
\* when the later one's source-trust score is strictly higher; otherwise the
\* earlier one stays and the later one is dropped
TitleCollisionByTrust ==
    fpc = "fused" =>
        \A k \in 1..(Len(products) - 1) :
            LET unique == afterPrefix(k).unique
            IN  \A i \in 1..Len(unique) :
                    titleKeyOf(unique[i]) = titleKeyOf(products[k + 1]) =>
                        ReplacedIffMoreTrusted(k, unique[i])

\* C19, for the candidates that reach the title test: when a later candidate
\* whose URL is not that of a kept candidate has the normalized title of a
\* kept candidate, the kept one is replaced by it exactly when its
\* source-trust score is strictly higher; otherwise the earlier one stays and
\* the later one is dropped
NewUrlTitleCollisionByTrust ==
    fpc = "fused" =>
        \A k \in 1..(Len(products) - 1) :
            LET unique == afterPrefix(k).unique
            IN  \A i \in 1..Len(unique) :
                    (/\ titleKeyOf(unique[i]) = titleKeyOf(products[k + 1])
                     /\ \A j \in 1..Len(unique) : unique[j].url # products[k + 1].url) =>
                        ReplacedIffMoreTrusted(k, unique[i])

NewUrlTitleCollisionByTrustWitness ==
    /\ fpc = "fused"
    /\ Len(products) = 3
    /\ titleKeyOf(products[1]) = titleKeyOf(products[2])
    /\ titleKeyOf(products[1]) = titleKeyOf(products[3])
    /\ products[1].url # products[2].url
    /\ products[1].url = products[3].url
    /\ getSourceScore(products[2].source) > getSourceScore(products[1].source)
    /\ getSourceScore(products[3].source) = getSourceScore(products[2].source)
    /\ positionsOf(fused) = {2}

ForIrrelevantAudience(title) ==
    \E term \in irrelevantTerms :
        includes(toLowerCase(title), term) /\ ~includes(toLowerCase(title), <<"w","o","m","e","n">>)

\* C20: no product in a result of searchProductsForExtractedItems has a title
\* with an irrelevant-audience term (men's, boys, kids, children, baby,
\* toddler) and without "women"
NoIrrelevantAudience ==
    \A i \in 1..Len(results) :
        \A k \in 1..Len(results[i].products) :
            ~ForIrrelevantAudience(results[i].products[k].title)

\* C21: every item extractIndividualItems returns carries a canonical
\* pieceType: a paired-item synonym reported by the model (shoe, boot, ...,
\* stocking) appears in the output as shoes, earrings, gloves or socks
ReturnedTypesCanonical ==
    \A k \in 1..Len(returned) :
        toLowerCase(returned[k].pieceType) \in DOMAIN typeMap =>
            returned[k].pieceType = typeMap[toLowerCase(returned[k].pieceType)]

compositeKeyOf(item) ==
    << normalizePieceType(item.pieceType),
       IF item.color # <<>> THEN toLowerCase(item.color) ELSE Unknown,
       normalizeDescription(item.description) >>

\* C22: after deduplication no two items share the same composite key
\* (canonical pieceType, lowercased color, normalized description prefix of
\* 50 characters), whatever their piece type
NoSharedCompositeKey ==
    ipc = "deduped" =>
        \A i, j \in 1..Len(deduped) :
            i # j => compositeKeyOf(deduped[i]) # compositeKeyOf(deduped[j])

\* C23: searchMethod names the strategy that produced the list: it is
\* "no_image_available" only for items without extractedImageUrl, and an item
\* whose visual search ran is never labelled so, also with zero products
SearchMethodNamesStrategy ==
    \A i \in 1..Len(results) :
        /\ results[i].searchMethod = "no_image_available" =>
              extractedItems[i].extractedImageUrl = ""
        /\ backend[i] # "none" => results[i].searchMethod # "no_image_available"

\* C24: the description of enhanceItemDescription holds no color, pattern or
\* style whose value is "unknown", "various" or "solid" (each sentinel is
\* skipped for each attribute), and always holds the pieceType
EnhancedSkipsSentinels ==
    \A k \in 1..Len(itemsWithImages) :
        LET item == deduplicatedItems[k]
            meaningful(value) ==
                IF value # <<>> /\ value \notin {Unknown, Various, Solid}
                THEN <<value>> ELSE <<>>
        IN  itemsWithImages[k].description =
                join(meaningful(item.color) \o meaningful(item.pattern)
                     \o <<item.pieceType>> \o meaningful(item.style)
                     \o contextWords(item.pieceType), " ")

\* what calculateRelevance gives on the source alone
sourceBase(source) ==
    calculateRelevance(Product(0, 0, <<>>, source, "", "", ""), anyItem)

\* C26: the trust order of getSourceScore agrees with the base-score order of
\* calculateRelevance: of two source tags, known or unknown, one is strictly
\* higher in the first table exactly when it is strictly higher in the second
SourceOrdersAgree ==
    fpc = "fused" =>
        \A i, j \in 1..Len(products) :
            (getSourceScore(products[i].source) > getSourceScore(products[j].source))
                <=> (sourceBase(products[i].source) > sourceBase(products[j].source))

SourceOrdersAgreeWitness ==
    /\ fpc = "fused"
    /\ Len(products) = 2
    /\ products[1].source = "text_search"
    /\ products[2].source = "gemini_web_search_fallback"
    /\ getSourceScore(products[2].source) > getSourceScore(products[1].source)
    /\ sourceBase(products[2].source) > sourceBase(products[1].source)

\* C27: when the visual search of an item with an extractedImageUrl fails
\* (image fetch error, model call error, unparseable response) the result of
\* the item has an empty products list and searchMethod "visual_search_failed"
FailedSearchLabelled ==
    \A i \in 1..Len(results) :
        BackendFailed(i) =>
            /\ results[i].products = <<>>
            /\ results[i].searchMethod = "visual_search_failed"

strategyOrder == <<"reverse_image", "image_upload", "serp_api", "enhanced_text">>

\* C25: in findShoppingLinksForExtractedItems the strategies run in the order
\* reverse image search, image upload search, SerpAPI image search, enhanced
\* text search, each invoked only if every strategy tried before it returned
\* an empty list; for an item without extractedImageUrl only the text search
\* is invoked
StrategiesInOrder ==
    \A i \in 1..Len(invoked) :
        IF linkItems[i].extractedImageUrl # ""
        THEN /\ Len(invoked[i]) <= 4
             /\ \A k \in 1..Len(invoked[i]) :
                   /\ invoked[i][k].strategy = strategyOrder[k]
                   /\ \A j \in 1..(k - 1) : invoked[i][j].found = 0
             /\ i <= Len(linkResults) =>
                   \/ invoked[i][Len(invoked[i])].found > 0
                   \/ Len(invoked[i]) = 4
        ELSE /\ Len(invoked[i]) <= 1
             /\ \A k \in 1..Len(invoked[i]) : invoked[i][k].strategy = "enhanced_text"
             /\ i <= Len(linkResults) => Len(invoked[i]) = 1

StrategiesInOrderWitness ==
    /\ linkPc = "done"
    /\ Len(invoked) = 2
    /\ linkItems[1].extractedImageUrl # ""
    /\ Len(invoked[1]) = 4
    /\ linkItems[2].extractedImageUrl = ""
    /\ Len(invoked[2]) = 1

\* C28: useInfiniteScroll has at most one getModels request in flight
AtMostOneInFlight == Len(inflight) <= 1

\* no request was made while another was in flight or by a callback of a
\* render that was out of date
Serial == \A i \in 1..Len(requested) : ~requested[i].overlapping /\ ~requested[i].stale

\* the list is the sample data or pages 1..k in order, each once
ItemsArePages ==
    \/ scrollItems = fallbackItems
    \/ \E k \in 0..MaxPage : scrollItems = [n \in 1..k |-> n]

\* a loadMore that follows the failure of page n > 1 requests page n
RetrySamePage ==
    (/\ failed # 0
     /\ Len(requested') = Len(requested) + 1
     /\ requested'[Len(requested')].by = "loadMore"
     /\ Serial')
        => requested'[Len(requested')].page = failed

\* C29: pages are never skipped or duplicated: as long as requests do not
\* overlap and come from an up-to-date render, the items are the concatenation of pages 1..k in order, each
\* once, and after the fetch of a page n > 1 failed the next loadMore
\* requests page n again
PagesNeverSkipped == [](Serial => ItemsArePages) /\ [][RetrySamePage]_vars

\* the text is an integer in decimal notation
isInteger(s) ==
    LET body == IF s # <<>> /\ Head(s) = "-" THEN Tail(s) ELSE s
    IN  body # <<>> /\ \A i \in 1..Len(body) : body[i] \in Digits

\* C30: validatePagination answers 400 without calling next() for every
\* request whose page is an integer below 1 or whose limit is an integer
\* outside 1..100; for every other request it calls next() exactly once,
\* sends no response and leaves page and limit set to the validated values
ValidatesPagination ==
    vpc # "received" =>
        IF \/ isInteger(received.page) /\ parseInt(received.page).value < 1
           \/ /\ isInteger(received.limit)
              /\ \/ parseInt(received.limit).value < 1
                 \/ parseInt(received.limit).value > 100
        THEN status = 400 /\ nextCalls = 0
        ELSE /\ nextCalls = 1
             /\ status # 400
             /\ vpc = "validated" => status = 0
             /\ isInteger(query.page) /\ parseInt(query.page).value >= 1
             /\ isInteger(query.limit) /\ parseInt(query.limit).value \in 1..100
             /\ isInteger(received.page) => parseInt(query.page) = parseInt(received.page)
             /\ isInteger(received.limit) => parseInt(query.limit) = parseInt(received.limit)

====
